---- MODULE Spec2Model ----
(***************************************************************************)
(* State-machine model of the Patient X pallets: identity-registry,        *)
(* consent-manager, authentication (identity-consent chain) and            *)
(* access-control, encryption (health-data chain).                         *)
(*                                                                         *)
(* Every extrinsic is an operator that takes its arguments, reads the      *)
(* storage variables and returns [res, st]: the DispatchResult ("Ok" or    *)
(* the name of the pallet Error) and the storage as the body leaves it at  *)
(* the point where it returns, writes made before a late error included.   *)
(* Dispatch is the storage layer FRAME wraps around every #[pallet::call]  *)
(* function: the writes are committed on Ok and discarded on Err.          *)
(*                                                                         *)
(* Hashes are modelled as the tuple of the hashed fields (collision free), *)
(* Option<T> as a sequence of length 0 (None) or 1 (Some), BoundedVec as a *)
(* sequence with the capacity checked where the code uses try_push.        *)
(* Events are not modelled.                                                *)
(***************************************************************************)
EXTENDS Integers, Sequences, FiniteSets, TLC

VARIABLES
    now,                \* T::TimeProvider::now(), advanced externally
    focus,              \* the pallet whose extrinsics this behaviour dispatches
    last,               \* the call just dispatched: [op, res, key, arg]
    expiredSeen,        \* consent ids on which log_access has failed on the expiry check
    \* pallet-identity-registry
    Identities, DidToAccount, VerificationQueue,
    \* pallet-consent-manager
    Consents, OwnerConsents, ConsumerConsents, AccessLogs, ConsentCount,
    \* pallet-access-control
    AccessRequests, AccessGrants, RequestCount,
    \* pallet-encryption
    EncryptionKeys, AccountKeys, RecordKeys, KeyAccessGrants, KeyCount,
    \* pallet-authentication
    Sessions, ApiKeys, AccountSessions

storageVars == <<Identities, DidToAccount, VerificationQueue,
                 Consents, OwnerConsents, ConsumerConsents, AccessLogs, ConsentCount,
                 AccessRequests, AccessGrants, RequestCount,
                 EncryptionKeys, AccountKeys, RecordKeys, KeyAccessGrants, KeyCount,
                 Sessions, ApiKeys, AccountSessions>>

vars == <<now, focus, last, expiredSeen, storageVars>>

(***************************************************************************)
(* Bounds of the exploration.                                              *)
(***************************************************************************)
MaxTime == 2
MaxConsents == 2
MaxRequests == 2
MaxKeys == 3

\* Capacities: the code's BoundedVec capacities are 1000, 1000, 10 and the
\* runtime's MaxKeysPerAccount; the model explores them at these sizes.
IndexCap == 2
LogCap == 1
SessionCap == 2
MaxKeysPerAccount == 2
SessionDuration == 2

DidMinLen == 10

Accounts == {"a1", "a2", "a3"}
Times == 0..MaxTime

\* Option<T>
None == <<>>
Some(x) == <<x>>
IsSome(o) == Len(o) = 1
Unwrap(o) == o[1]

\* StorageMap as a function on the keys present
EmptyMap == [k \in {} |-> {}]
Has(m, k) == k \in DOMAIN m
Put(m, k, v) == [x \in (DOMAIN m) \cup {k} |-> IF x = k THEN v ELSE m[x]]
Del(m, k) == [x \in (DOMAIN m) \ {k} |-> m[x]]
\* ValueQuery: an absent key reads as the default
GetOr(m, k, d) == IF k \in DOMAIN m THEN m[k] ELSE d

saturating_add(a, b) == a + b   \* u64; the counters stay far below 2^64 - 1

Storage ==
    [Identities |-> Identities, DidToAccount |-> DidToAccount,
     VerificationQueue |-> VerificationQueue,
     Consents |-> Consents, OwnerConsents |-> OwnerConsents,
     ConsumerConsents |-> ConsumerConsents, AccessLogs |-> AccessLogs,
     ConsentCount |-> ConsentCount,
     AccessRequests |-> AccessRequests, AccessGrants |-> AccessGrants,
     RequestCount |-> RequestCount,
     EncryptionKeys |-> EncryptionKeys, AccountKeys |-> AccountKeys,
     RecordKeys |-> RecordKeys, KeyAccessGrants |-> KeyAccessGrants,
     KeyCount |-> KeyCount,
     Sessions |-> Sessions, ApiKeys |-> ApiKeys, AccountSessions |-> AccountSessions]

\* DispatchResult of a body, with the storage at the point of return
Ok(st) == [res |-> "Ok", st |-> st]
Err(e) == [res |-> e, st |-> Storage]
ErrAt(e, st) == [res |-> e, st |-> st]

\* A try_mutate that never writes the closure's copy of the entry back.
try_mutate_no_writeback(item, key, r) == [res |-> r.res, st |-> r.st]

\* StorageMap::try_mutate(key, closure): the closure works on a copy of the
\* entry; the copy r.val is written back only when the closure returns Ok.
\* r.st carries the writes the closure made to other storage items.
try_mutate(item, key, r) ==
    [res |-> r.res,
     st |-> IF r.res = "Ok" THEN [r.st EXCEPT ![item] = Put(@, key, r.val)] ELSE r.st]

\* A storage layer that commits whatever the body wrote, error or not.
DispatchNoRollback(r) == r

\* The transactional storage layer of a #[pallet::call] dispatchable.
Dispatch(r) == [res |-> r.res, st |-> IF r.res = "Ok" THEN r.st ELSE Storage]

\* One dispatched call: the storage the layer commits, and the call's record.
Commit(op, key, arg, r) ==
    /\ Identities' = r.st.Identities
    /\ DidToAccount' = r.st.DidToAccount
    /\ VerificationQueue' = r.st.VerificationQueue
    /\ Consents' = r.st.Consents
    /\ OwnerConsents' = r.st.OwnerConsents
    /\ ConsumerConsents' = r.st.ConsumerConsents
    /\ AccessLogs' = r.st.AccessLogs
    /\ ConsentCount' = r.st.ConsentCount
    /\ AccessRequests' = r.st.AccessRequests
    /\ AccessGrants' = r.st.AccessGrants
    /\ RequestCount' = r.st.RequestCount
    /\ EncryptionKeys' = r.st.EncryptionKeys
    /\ AccountKeys' = r.st.AccountKeys
    /\ RecordKeys' = r.st.RecordKeys
    /\ KeyAccessGrants' = r.st.KeyAccessGrants
    /\ KeyCount' = r.st.KeyCount
    /\ Sessions' = r.st.Sessions
    /\ ApiKeys' = r.st.ApiKeys
    /\ AccountSessions' = r.st.AccountSessions
    /\ last' = [op |-> op, res |-> r.res, key |-> key, arg |-> arg]
    /\ UNCHANGED <<now, focus>>

(***************************************************************************)
(* pallet-identity-registry                                                *)
(***************************************************************************)
UserRole == {"Patient", "Researcher", "Institution", "Auditor"}
VerificationStatus == {"Unverified", "Pending", "Verified", "Rejected"}
IdentityErrors == {"IdentityAlreadyExists", "IdentityNotFound", "DIDAlreadyExists",
                   "NotAuthorized", "IdentityNotActive", "VerificationAlreadyPending",
                   "InvalidDID", "InvalidName", "MaxIdentitiesReached"}

\* register_identity that replaces the caller's identity when one exists.
register_identity_again(who, did, role, name, email_hash) ==
    IF Has(DidToAccount, did) /\ DidToAccount[did] # who THEN Err("DIDAlreadyExists")
    ELSE IF ~(Len(did) >= DidMinLen) THEN Err("InvalidDID")
    ELSE IF Len(name) = 0 THEN Err("InvalidName")
    ELSE LET identity == [did |-> did, role |-> role, name |-> name,
                          email_hash |-> email_hash,
                          verification_status |-> "Unverified",
                          registered_at |-> now, updated_at |-> now,
                          owner |-> who, active |-> TRUE]
         IN Ok([Storage EXCEPT !.Identities = Put(@, who, identity),
                               !.DidToAccount = Put(@, did, who)])

\* register_identity without the check that the DID is free.
register_identity_any_did(who, did, role, name, email_hash) ==
    IF Has(Identities, who) THEN Err("IdentityAlreadyExists")
    ELSE IF ~(Len(did) >= DidMinLen) THEN Err("InvalidDID")
    ELSE IF Len(name) = 0 THEN Err("InvalidName")
    ELSE LET identity == [did |-> did, role |-> role, name |-> name,
                          email_hash |-> email_hash,
                          verification_status |-> "Unverified",
                          registered_at |-> now, updated_at |-> now,
                          owner |-> who, active |-> TRUE]
         IN Ok([Storage EXCEPT !.Identities = Put(@, who, identity),
                               !.DidToAccount = Put(@, did, who)])

register_identity(who, did, role, name, email_hash) ==
    IF Has(Identities, who) THEN Err("IdentityAlreadyExists")
    ELSE IF Has(DidToAccount, did) THEN Err("DIDAlreadyExists")
    ELSE IF ~(Len(did) >= DidMinLen) THEN Err("InvalidDID")
    ELSE IF Len(name) = 0 THEN Err("InvalidName")
    ELSE LET identity == [did |-> did, role |-> role, name |-> name,
                          email_hash |-> email_hash,
                          verification_status |-> "Unverified",
                          registered_at |-> now, updated_at |-> now,
                          owner |-> who, active |-> TRUE]
         IN Ok([Storage EXCEPT !.Identities = Put(@, who, identity),
                               !.DidToAccount = Put(@, did, who)])

\* name and email_hash are Option<_>
\* update_identity without the check of the active flag.
update_identity_of_inactive(who, name, email_hash) ==
    try_mutate("Identities", who,
        IF ~Has(Identities, who) THEN Err("IdentityNotFound")
        ELSE LET identity == Identities[who] IN
        IF IsSome(name) /\ Len(Unwrap(name)) = 0 THEN Err("InvalidName")
        ELSE LET i1 == IF IsSome(name) THEN [identity EXCEPT !.name = Unwrap(name)]
                       ELSE identity
                 i2 == IF IsSome(email_hash)
                       THEN [i1 EXCEPT !.email_hash = Unwrap(email_hash)] ELSE i1
             IN [res |-> "Ok", st |-> Storage, val |-> [i2 EXCEPT !.updated_at = now]])

update_identity(who, name, email_hash) ==
    try_mutate("Identities", who,
        IF ~Has(Identities, who) THEN Err("IdentityNotFound")
        ELSE LET identity == Identities[who] IN
        IF ~identity.active THEN Err("IdentityNotActive")
        ELSE IF IsSome(name) /\ Len(Unwrap(name)) = 0 THEN Err("InvalidName")
        ELSE LET i1 == IF IsSome(name) THEN [identity EXCEPT !.name = Unwrap(name)]
                       ELSE identity
                 i2 == IF IsSome(email_hash)
                       THEN [i1 EXCEPT !.email_hash = Unwrap(email_hash)] ELSE i1
             IN [res |-> "Ok", st |-> Storage, val |-> [i2 EXCEPT !.updated_at = now]])

request_verification(who) ==
    IF ~Has(Identities, who) THEN Err("IdentityNotFound")
    ELSE IF ~Identities[who].active THEN Err("IdentityNotActive")
    ELSE IF Has(VerificationQueue, who) THEN Err("VerificationAlreadyPending")
    ELSE Ok([Storage EXCEPT
                !.VerificationQueue = Put(@, who, now),
                !.Identities = Put(@, who, [Identities[who] EXCEPT
                                               !.verification_status = "Pending"])])

\* set_verification leaving the target in the verification queue.
set_verification_keep_queued(verifier, target, status) ==
    IF ~Has(Identities, verifier) THEN Err("NotAuthorized")
    ELSE IF Identities[verifier].role # "Auditor" THEN Err("NotAuthorized")
    ELSE IF ~Has(Identities, target) THEN Err("IdentityNotFound")
    ELSE Ok([Storage EXCEPT
                !.Identities = Put(@, target, [Identities[target] EXCEPT
                                                  !.verification_status = status,
                                                  !.updated_at = now])])

\* verify_identity and reject_verification differ in the status they set
set_verification(verifier, target, status) ==
    IF ~Has(Identities, verifier) THEN Err("NotAuthorized")
    ELSE IF Identities[verifier].role # "Auditor" THEN Err("NotAuthorized")
    ELSE IF ~Has(Identities, target) THEN Err("IdentityNotFound")
    ELSE Ok([Storage EXCEPT
                !.Identities = Put(@, target, [Identities[target] EXCEPT
                                                  !.verification_status = status,
                                                  !.updated_at = now]),
                !.VerificationQueue = Del(@, target)])

verify_identity(verifier, target) == set_verification(verifier, target, "Verified")

reject_verification(verifier, target, reason) ==
    set_verification(verifier, target, "Rejected")

deactivate_identity(who) ==
    IF ~Has(Identities, who) THEN Err("IdentityNotFound")
    ELSE Ok([Storage EXCEPT
                !.Identities = Put(@, who, [Identities[who] EXCEPT
                                               !.active = FALSE,
                                               !.updated_at = now])])

is_active_identity(account) ==
    IF Has(Identities, account) THEN Identities[account].active ELSE FALSE

\* has_role that does not look at the active flag.
has_role_of_inactive(account, role) ==
    IF Has(Identities, account) THEN Identities[account].role = role ELSE FALSE

has_role(account, role) ==
    IF Has(Identities, account)
    THEN Identities[account].role = role /\ Identities[account].active
    ELSE FALSE

is_verified(account) ==
    IF Has(Identities, account)
    THEN Identities[account].verification_status = "Verified"
         /\ Identities[account].active
    ELSE FALSE

get_identity_by_did(did) ==
    IF Has(DidToAccount, did)
    THEN (IF Has(Identities, DidToAccount[did])
          THEN Some(Identities[DidToAccount[did]]) ELSE None)
    ELSE None

(***************************************************************************)
(* pallet-consent-manager                                                  *)
(***************************************************************************)
ConsentStatus == {"Active", "Revoked", "Expired", "Pending"}
ConsentErrors == {"ConsentNotFound", "NotAuthorized", "InvalidIdentity",
                  "InvalidConsumer", "AlreadyRevoked", "ConsentExpired",
                  "InvalidExpiryTime", "MaxConsentsReached", "MaxAccessLogsReached",
                  "InvalidDataTypes"}

\* The id hashed without the nonce: a second consent between the same pair
\* takes the id of the first.
generate_consent_id_no_nonce(owner, consumer, nonce) == <<owner, consumer, 0>>

generate_consent_id(owner, consumer, nonce) == <<owner, consumer, nonce>>

\* create_consent that checks the roles only.
create_consent_roles_only(owner, consumer, purpose, data_types, expires_at, terms_hash) ==
    IF ~has_role(owner, "Patient") THEN Err("InvalidIdentity")
    ELSE IF ~(has_role(consumer, "Researcher") \/ has_role(consumer, "Institution"))
         THEN Err("InvalidConsumer")
    ELSE
    LET consent_id == generate_consent_id(owner, consumer, ConsentCount)
        consent == [consent_id |-> consent_id, data_owner |-> owner,
                    data_consumer |-> consumer, purpose |-> purpose,
                    data_types |-> data_types, created_at |-> now,
                    expires_at |-> expires_at, status |-> "Active",
                    revoked_at |-> None, access_count |-> 0,
                    last_accessed |-> None, terms_hash |-> terms_hash]
    IN Ok([Storage EXCEPT !.ConsentCount = saturating_add(@, 1),
                          !.Consents = Put(@, consent_id, consent),
                          !.OwnerConsents[owner] = Append(@, consent_id),
                          !.ConsumerConsents[consumer] = Append(@, consent_id)])

\* create_consent storing the new consent as Pending.
create_consent_pending(owner, consumer, purpose, data_types, expires_at, terms_hash) ==
    IF ~has_role(owner, "Patient") THEN Err("InvalidIdentity")
    ELSE IF ~(has_role(consumer, "Researcher") \/ has_role(consumer, "Institution"))
         THEN Err("InvalidConsumer")
    ELSE IF Len(data_types) = 0 THEN Err("InvalidDataTypes")
    ELSE IF expires_at > 0 /\ ~(expires_at > now) THEN Err("InvalidExpiryTime")
    ELSE
    LET count == ConsentCount
        consent_id == generate_consent_id(owner, consumer, count)
        consent == [consent_id |-> consent_id, data_owner |-> owner,
                    data_consumer |-> consumer, purpose |-> purpose,
                    data_types |-> data_types, created_at |-> now,
                    expires_at |-> expires_at, status |-> "Pending",
                    revoked_at |-> None, access_count |-> 0,
                    last_accessed |-> None, terms_hash |-> terms_hash]
        s1 == [Storage EXCEPT !.ConsentCount = saturating_add(count, 1),
                              !.Consents = Put(@, consent_id, consent)]
    IN  IF ~(Len(s1.OwnerConsents[owner]) < IndexCap)
        THEN ErrAt("MaxConsentsReached", s1)
        ELSE
        LET s2 == [s1 EXCEPT !.OwnerConsents[owner] = Append(@, consent_id)] IN
        IF ~(Len(s2.ConsumerConsents[consumer]) < IndexCap)
        THEN ErrAt("MaxConsentsReached", s2)
        ELSE Ok([s2 EXCEPT !.ConsumerConsents[consumer] = Append(@, consent_id)])

create_consent(owner, consumer, purpose, data_types, expires_at, terms_hash) ==
    IF ~has_role(owner, "Patient") THEN Err("InvalidIdentity")
    ELSE IF ~(has_role(consumer, "Researcher") \/ has_role(consumer, "Institution"))
         THEN Err("InvalidConsumer")
    ELSE IF Len(data_types) = 0 THEN Err("InvalidDataTypes")
    ELSE IF expires_at > 0 /\ ~(expires_at > now) THEN Err("InvalidExpiryTime")
    ELSE
    LET count == ConsentCount
        consent_id == generate_consent_id(owner, consumer, count)
        consent == [consent_id |-> consent_id, data_owner |-> owner,
                    data_consumer |-> consumer, purpose |-> purpose,
                    data_types |-> data_types, created_at |-> now,
                    expires_at |-> expires_at, status |-> "Active",
                    revoked_at |-> None, access_count |-> 0,
                    last_accessed |-> None, terms_hash |-> terms_hash]
        s1 == [Storage EXCEPT !.ConsentCount = saturating_add(count, 1),
                              !.Consents = Put(@, consent_id, consent)]
    IN  IF ~(Len(s1.OwnerConsents[owner]) < IndexCap)
        THEN ErrAt("MaxConsentsReached", s1)
        ELSE
        LET s2 == [s1 EXCEPT !.OwnerConsents[owner] = Append(@, consent_id)] IN
        IF ~(Len(s2.ConsumerConsents[consumer]) < IndexCap)
        THEN ErrAt("MaxConsentsReached", s2)
        ELSE Ok([s2 EXCEPT !.ConsumerConsents[consumer] = Append(@, consent_id)])

\* revoke_consent without the AlreadyRevoked check.
revoke_consent_no_check(revoker, consent_id) ==
    try_mutate("Consents", consent_id,
        IF ~Has(Consents, consent_id) THEN Err("ConsentNotFound")
        ELSE LET consent == Consents[consent_id] IN
        IF consent.data_owner # revoker THEN Err("NotAuthorized")
        ELSE [res |-> "Ok", st |-> Storage,
              val |-> [consent EXCEPT !.status = "Revoked",
                                      !.revoked_at = Some(now)]])

revoke_consent(revoker, consent_id) ==
    try_mutate("Consents", consent_id,
        IF ~Has(Consents, consent_id) THEN Err("ConsentNotFound")
        ELSE LET consent == Consents[consent_id] IN
        IF consent.data_owner # revoker THEN Err("NotAuthorized")
        ELSE IF consent.status = "Revoked" THEN Err("AlreadyRevoked")
        ELSE [res |-> "Ok", st |-> Storage,
              val |-> [consent EXCEPT !.status = "Revoked",
                                      !.revoked_at = Some(now)]])

\* update_consent without the status check
update_consent_any_status(updater, consent_id, new_expires_at, new_data_types) ==
    try_mutate("Consents", consent_id,
        IF ~Has(Consents, consent_id) THEN Err("ConsentNotFound")
        ELSE LET consent == Consents[consent_id] IN
        IF consent.data_owner # updater THEN Err("NotAuthorized")
        ELSE IF IsSome(new_expires_at) /\ Unwrap(new_expires_at) > 0
                /\ ~(Unwrap(new_expires_at) > now)
             THEN Err("InvalidExpiryTime")
        ELSE IF IsSome(new_data_types) /\ Len(Unwrap(new_data_types)) = 0
             THEN Err("InvalidDataTypes")
        ELSE LET c1 == IF IsSome(new_expires_at)
                       THEN [consent EXCEPT !.expires_at = Unwrap(new_expires_at)]
                       ELSE consent
                 c2 == IF IsSome(new_data_types)
                       THEN [c1 EXCEPT !.data_types = Unwrap(new_data_types)]
                       ELSE c1
             IN [res |-> "Ok", st |-> Storage, val |-> c2])

\* new_expires_at and new_data_types are Option<_>
update_consent(updater, consent_id, new_expires_at, new_data_types) ==
    try_mutate("Consents", consent_id,
        IF ~Has(Consents, consent_id) THEN Err("ConsentNotFound")
        ELSE LET consent == Consents[consent_id] IN
        IF consent.data_owner # updater THEN Err("NotAuthorized")
        ELSE IF consent.status # "Active" THEN Err("ConsentExpired")
        ELSE IF IsSome(new_expires_at) /\ Unwrap(new_expires_at) > 0
                /\ ~(Unwrap(new_expires_at) > now)
             THEN Err("InvalidExpiryTime")
        ELSE IF IsSome(new_data_types) /\ Len(Unwrap(new_data_types)) = 0
             THEN Err("InvalidDataTypes")
        ELSE LET c1 == IF IsSome(new_expires_at)
                       THEN [consent EXCEPT !.expires_at = Unwrap(new_expires_at)]
                       ELSE consent
                 c2 == IF IsSome(new_data_types)
                       THEN [c1 EXCEPT !.data_types = Unwrap(new_data_types)]
                       ELSE c1
             IN [res |-> "Ok", st |-> Storage, val |-> c2])

\* log_access that appends the log entry without counting the access.
log_access_uncounted(accessor, consent_id, data_hash) ==
    try_mutate("Consents", consent_id,
        IF ~Has(Consents, consent_id) THEN Err("ConsentNotFound")
        ELSE LET consent == Consents[consent_id] IN
        IF consent.status # "Active" THEN Err("ConsentExpired")
        ELSE IF consent.expires_at > 0 /\ consent.expires_at < now
             \* the closure sets status = Expired on its copy and returns Err
             THEN [res |-> "ConsentExpired", st |-> Storage,
                   val |-> [consent EXCEPT !.status = "Expired"]]
        ELSE LET c1 == [consent EXCEPT
                           !.last_accessed = Some(now)]
                 log_entry == [consent_id |-> consent_id, accessor |-> accessor,
                               accessed_at |-> now, data_hash |-> data_hash,
                               approved |-> TRUE]
                 logs == GetOr(AccessLogs, consent_id, <<>>)
             IN IF ~(Len(logs) < LogCap)
                THEN [res |-> "MaxAccessLogsReached", st |-> Storage, val |-> c1]
                ELSE [res |-> "Ok", val |-> c1,
                      st |-> [Storage EXCEPT
                                 !.AccessLogs = Put(@, consent_id,
                                                    Append(logs, log_entry))]])

log_access(accessor, consent_id, data_hash) ==
    try_mutate("Consents", consent_id,
        IF ~Has(Consents, consent_id) THEN Err("ConsentNotFound")
        ELSE LET consent == Consents[consent_id] IN
        IF consent.status # "Active" THEN Err("ConsentExpired")
        ELSE IF consent.expires_at > 0 /\ consent.expires_at < now
             \* the closure sets status = Expired on its copy and returns Err
             THEN [res |-> "ConsentExpired", st |-> Storage,
                   val |-> [consent EXCEPT !.status = "Expired"]]
        ELSE LET c1 == [consent EXCEPT
                           !.access_count = saturating_add(@, 1),
                           !.last_accessed = Some(now)]
                 log_entry == [consent_id |-> consent_id, accessor |-> accessor,
                               accessed_at |-> now, data_hash |-> data_hash,
                               approved |-> TRUE]
                 logs == GetOr(AccessLogs, consent_id, <<>>)
             IN IF ~(Len(logs) < LogCap)
                THEN [res |-> "MaxAccessLogsReached", st |-> Storage, val |-> c1]
                ELSE [res |-> "Ok", val |-> c1,
                      st |-> [Storage EXCEPT
                                 !.AccessLogs = Put(@, consent_id,
                                                    Append(logs, log_entry))]])

\* check_consent that counts the access it has approved.
check_consent_counting(who, consent_id, accessor) ==
    IF ~Has(Consents, consent_id) THEN Err("ConsentNotFound")
    ELSE LET consent == Consents[consent_id] IN
    IF consent.status # "Active" THEN Err("ConsentExpired")
    ELSE IF consent.expires_at > 0 /\ consent.expires_at < now
         THEN Err("ConsentExpired")
    ELSE IF consent.data_consumer # accessor THEN Err("NotAuthorized")
    ELSE Ok([Storage EXCEPT !.Consents[consent_id].access_count = @ + 1,
                            !.Consents[consent_id].last_accessed = Some(now)])

check_consent(who, consent_id, accessor) ==
    IF ~Has(Consents, consent_id) THEN Err("ConsentNotFound")
    ELSE LET consent == Consents[consent_id] IN
    IF consent.status # "Active" THEN Err("ConsentExpired")
    ELSE IF consent.expires_at > 0 /\ consent.expires_at < now
         THEN Err("ConsentExpired")
    ELSE IF consent.data_consumer # accessor THEN Err("NotAuthorized")
    ELSE Ok(Storage)

\* The index lookup without the filter on the live status.
RECURSIVE SelectStored(_)
SelectStored(ids) ==
    IF ids = <<>> THEN <<>>
    ELSE LET rest == SelectStored(Tail(ids)) IN
         IF Has(Consents, Head(ids))
         THEN <<Consents[Head(ids)]>> \o rest ELSE rest

RECURSIVE SelectActive(_)
SelectActive(ids) ==
    IF ids = <<>> THEN <<>>
    ELSE LET rest == SelectActive(Tail(ids)) IN
         IF Has(Consents, Head(ids)) /\ Consents[Head(ids)].status = "Active"
         THEN <<Consents[Head(ids)]>> \o rest ELSE rest

get_active_consents_for_owner(owner) == SelectActive(OwnerConsents[owner])

get_active_consents_for_consumer(consumer) == SelectActive(ConsumerConsents[consumer])

\* log_access takes its expiry branch on this consent at the current time
TimeExpired(consent_id) ==
    /\ Has(Consents, consent_id)
    /\ Consents[consent_id].status = "Active"
    /\ Consents[consent_id].expires_at > 0
    /\ Consents[consent_id].expires_at < now

\* is_consent_valid reading expires_at = 0 as a time like any other.
is_consent_valid_zero_is_a_time(consent_id, accessor, t) ==
    IF Has(Consents, consent_id)
    THEN LET consent == Consents[consent_id] IN
         /\ consent.status = "Active"
         /\ consent.expires_at > t
         /\ consent.data_consumer = accessor
    ELSE FALSE

is_consent_valid(consent_id, accessor, t) ==
    IF Has(Consents, consent_id)
    THEN LET consent == Consents[consent_id] IN
         /\ consent.status = "Active"
         /\ (consent.expires_at = 0 \/ consent.expires_at > t)
         /\ consent.data_consumer = accessor
    ELSE FALSE

(***************************************************************************)
(* pallet-authentication                                                   *)
(***************************************************************************)
AuthErrors == {"SessionNotFound", "SessionExpired", "NotAuthorized", "InvalidIdentity",
               "MaxSessionsReached", "ApiKeyNotFound", "ApiKeyInactive"}

generate_session_id(account, timestamp) == <<account, timestamp>>

create_session(who) ==
    IF ~is_active_identity(who) THEN Err("InvalidIdentity")
    ELSE
    LET session_id == generate_session_id(who, now)
        session == [account |-> who, session_id |-> session_id, created_at |-> now,
                    expires_at |-> now + SessionDuration, active |-> TRUE]
        s1 == [Storage EXCEPT !.Sessions = Put(@, session_id, session)]
    IN  IF ~(Len(s1.AccountSessions[who]) < SessionCap)
        THEN ErrAt("MaxSessionsReached", s1)
        ELSE Ok([s1 EXCEPT !.AccountSessions[who] = Append(@, session_id)])

revoke_session(who, session_id) ==
    try_mutate("Sessions", session_id,
        IF ~Has(Sessions, session_id) THEN Err("SessionNotFound")
        ELSE LET session == Sessions[session_id] IN
        IF session.account # who THEN Err("NotAuthorized")
        ELSE [res |-> "Ok", st |-> Storage, val |-> [session EXCEPT !.active = FALSE]])

create_api_key(who, key_hash, name) ==
    IF ~is_active_identity(who) THEN Err("InvalidIdentity")
    ELSE LET api_key == [account |-> who, key_hash |-> key_hash, name |-> name,
                         created_at |-> now, last_used |-> None, active |-> TRUE]
         IN Ok([Storage EXCEPT !.ApiKeys = Put(@, key_hash, api_key)])

revoke_api_key(who, key_hash) ==
    try_mutate("ApiKeys", key_hash,
        IF ~Has(ApiKeys, key_hash) THEN Err("ApiKeyNotFound")
        ELSE LET key == ApiKeys[key_hash] IN
        IF key.account # who THEN Err("NotAuthorized")
        ELSE [res |-> "Ok", st |-> Storage, val |-> [key EXCEPT !.active = FALSE]])

is_session_valid(session_id, t) ==
    IF Has(Sessions, session_id)
    THEN Sessions[session_id].active /\ Sessions[session_id].expires_at > t
    ELSE FALSE

(***************************************************************************)
(* pallet-access-control                                                   *)
(***************************************************************************)
AccessStatus == {"Pending", "Granted", "Denied", "Expired"}
AccessErrors == {"RequestNotFound", "NotAuthorized", "AccessAlreadyGranted",
                 "NoActiveConsent"}

generate_request_id(requester, nonce) == <<requester, nonce>>

request_access(requester, record_id, patient, consent_id) ==
    LET count == RequestCount
        request_id == generate_request_id(requester, count)
        request == [request_id |-> request_id, record_id |-> record_id,
                    requester |-> requester, patient |-> patient,
                    consent_id |-> Some(consent_id), status |-> "Pending",
                    requested_at |-> now, responded_at |-> None]
    IN Ok([Storage EXCEPT !.RequestCount = saturating_add(count, 1),
                          !.AccessRequests = Put(@, request_id, request)])

\* grant_access without the check that the caller is the request's patient.
grant_access_any_caller(who, request_id, expires_at) ==
    try_mutate("AccessRequests", request_id,
        IF ~Has(AccessRequests, request_id) THEN Err("RequestNotFound")
        ELSE LET request == AccessRequests[request_id] IN
             [res |-> "Ok",
              val |-> [request EXCEPT !.status = "Granted",
                                      !.responded_at = Some(now)],
              st |-> [Storage EXCEPT
                         !.AccessGrants = Put(@, <<request.record_id, request.requester>>,
                                              expires_at)]])

\* AccessGrants is a StorageDoubleMap, keyed here by <<record_id, requester>>
grant_access(who, request_id, expires_at) ==
    try_mutate("AccessRequests", request_id,
        IF ~Has(AccessRequests, request_id) THEN Err("RequestNotFound")
        ELSE LET request == AccessRequests[request_id] IN
        IF request.patient # who THEN Err("NotAuthorized")
        ELSE [res |-> "Ok",
              val |-> [request EXCEPT !.status = "Granted",
                                      !.responded_at = Some(now)],
              st |-> [Storage EXCEPT
                         !.AccessGrants = Put(@, <<request.record_id, request.requester>>,
                                              expires_at)]])

deny_access(who, request_id) ==
    try_mutate("AccessRequests", request_id,
        IF ~Has(AccessRequests, request_id) THEN Err("RequestNotFound")
        ELSE LET request == AccessRequests[request_id] IN
        IF request.patient # who THEN Err("NotAuthorized")
        ELSE [res |-> "Ok", st |-> Storage,
              val |-> [request EXCEPT !.status = "Denied",
                                      !.responded_at = Some(now)]])

\* revoke_access that removes the caller's own grant on the record.
revoke_access_of_caller(who, record_id, requester) ==
    Ok([Storage EXCEPT !.AccessGrants = Del(@, <<record_id, who>>)])

revoke_access(who, record_id, requester) ==
    Ok([Storage EXCEPT !.AccessGrants = Del(@, <<record_id, requester>>)])

\* has_access with the expiry instant still counted as valid.
has_access_inclusive(record_id, requester, t) ==
    IF Has(AccessGrants, <<record_id, requester>>)
    THEN AccessGrants[<<record_id, requester>>] >= t
    ELSE FALSE

has_access(record_id, requester, t) ==
    IF Has(AccessGrants, <<record_id, requester>>)
    THEN AccessGrants[<<record_id, requester>>] > t
    ELSE FALSE

(***************************************************************************)
(* pallet-encryption                                                       *)
(***************************************************************************)
EncryptionAlgorithm == {"ChaCha20Poly1305", "AES256GCM"}
KeyPurpose == {"RecordEncryption", "DataEncryption", "KeyEncryption"}
EncryptionErrors == {"KeyNotFound", "NotAuthorized", "KeyAlreadyRevoked", "KeyExpired",
                     "MaxKeysReached", "MaxAccessGrantsReached", "RecordAlreadyHasKey",
                     "NoKeyForRecord"}

generate_key_id(owner, nonce) == <<owner, nonce>>

\* generate_key without the check that the record has no key yet.
generate_key_any_record(owner, algorithm, purpose, record_id, expires_at) ==
    LET account_keys == AccountKeys[owner] IN
    IF ~(Len(account_keys) < MaxKeysPerAccount) THEN Err("MaxKeysReached")
    ELSE
    LET count == KeyCount
        key_id == generate_key_id(owner, count)
        key == [key_id |-> key_id, owner |-> owner, algorithm |-> algorithm,
                purpose |-> purpose, record_id |-> record_id, created_at |-> now,
                expires_at |-> expires_at, active |-> TRUE, rotated |-> FALSE,
                rotated_to |-> None]
        s1 == [Storage EXCEPT !.KeyCount = saturating_add(count, 1),
                              !.EncryptionKeys = Put(@, key_id, key),
                              !.AccountKeys[owner] = Append(account_keys, key_id)]
    IN  Ok(IF IsSome(record_id)
           THEN [s1 EXCEPT !.RecordKeys = Put(@, Unwrap(record_id), key_id)]
           ELSE s1)

\* record_id and expires_at are Option<_>
generate_key(owner, algorithm, purpose, record_id, expires_at) ==
    LET account_keys == AccountKeys[owner] IN
    IF ~(Len(account_keys) < MaxKeysPerAccount) THEN Err("MaxKeysReached")
    ELSE IF IsSome(record_id) /\ Has(RecordKeys, Unwrap(record_id))
         THEN Err("RecordAlreadyHasKey")
    ELSE
    LET count == KeyCount
        key_id == generate_key_id(owner, count)
        key == [key_id |-> key_id, owner |-> owner, algorithm |-> algorithm,
                purpose |-> purpose, record_id |-> record_id, created_at |-> now,
                expires_at |-> expires_at, active |-> TRUE, rotated |-> FALSE,
                rotated_to |-> None]
        s1 == [Storage EXCEPT !.KeyCount = saturating_add(count, 1),
                              !.EncryptionKeys = Put(@, key_id, key),
                              !.AccountKeys[owner] = Append(account_keys, key_id)]
    IN  Ok(IF IsSome(record_id)
           THEN [s1 EXCEPT !.RecordKeys = Put(@, Unwrap(record_id), key_id)]
           ELSE s1)

\* The closure of rotate_key's try_mutate on the old key.
rotate_key_closure(who, record_id, new_algorithm, expires_at, old_key_id) ==
    IF ~Has(EncryptionKeys, old_key_id) THEN Err("KeyNotFound")
    ELSE LET old_key == EncryptionKeys[old_key_id] IN
    IF old_key.owner # who THEN Err("NotAuthorized")
    ELSE
    LET count == KeyCount
        new_key_id == generate_key_id(who, count)
        new_key == [key_id |-> new_key_id, owner |-> who, algorithm |-> new_algorithm,
                    purpose |-> old_key.purpose, record_id |-> Some(record_id),
                    created_at |-> now, expires_at |-> expires_at, active |-> TRUE,
                    rotated |-> FALSE, rotated_to |-> None]
        old1 == [old_key EXCEPT !.rotated = TRUE, !.active = FALSE,
                                !.rotated_to = Some(new_key_id)]
        s1 == [Storage EXCEPT !.KeyCount = saturating_add(count, 1),
                              !.EncryptionKeys = Put(@, new_key_id, new_key),
                              !.RecordKeys = Put(@, record_id, new_key_id)]
        account_keys == s1.AccountKeys[who]
    IN  IF ~(Len(account_keys) < MaxKeysPerAccount)
        THEN [res |-> "MaxKeysReached", st |-> s1, val |-> old1]
        ELSE [res |-> "Ok", val |-> old1,
              st |-> [s1 EXCEPT !.AccountKeys[who] = Append(account_keys, new_key_id)]]

rotate_key(who, record_id, new_algorithm, expires_at) ==
    IF ~Has(RecordKeys, record_id) THEN Err("NoKeyForRecord")
    ELSE try_mutate("EncryptionKeys", RecordKeys[record_id],
                    rotate_key_closure(who, record_id, new_algorithm, expires_at,
                                       RecordKeys[record_id]))

\* revoke_key without the check that the key is still active.
revoke_key_again(who, key_id) ==
    try_mutate("EncryptionKeys", key_id,
        IF ~Has(EncryptionKeys, key_id) THEN Err("KeyNotFound")
        ELSE LET key == EncryptionKeys[key_id] IN
        IF key.owner # who THEN Err("NotAuthorized")
        ELSE [res |-> "Ok", st |-> Storage, val |-> [key EXCEPT !.active = FALSE]])

revoke_key(who, key_id) ==
    try_mutate("EncryptionKeys", key_id,
        IF ~Has(EncryptionKeys, key_id) THEN Err("KeyNotFound")
        ELSE LET key == EncryptionKeys[key_id] IN
        IF key.owner # who THEN Err("NotAuthorized")
        ELSE IF ~key.active THEN Err("KeyAlreadyRevoked")
        ELSE [res |-> "Ok", st |-> Storage, val |-> [key EXCEPT !.active = FALSE]])

\* KeyAccessGrants is a StorageDoubleMap, keyed here by <<key_id, grantee>>
grant_key_access(who, key_id, grantee, expires_at) ==
    IF ~Has(EncryptionKeys, key_id) THEN Err("KeyNotFound")
    ELSE IF EncryptionKeys[key_id].owner # who THEN Err("NotAuthorized")
    ELSE LET access == [grantee |-> grantee, granted_at |-> now,
                        expires_at |-> expires_at]
         IN Ok([Storage EXCEPT !.KeyAccessGrants = Put(@, <<key_id, grantee>>, access)])

revoke_key_access(who, key_id, grantee) ==
    IF ~Has(EncryptionKeys, key_id) THEN Err("KeyNotFound")
    ELSE IF EncryptionKeys[key_id].owner # who THEN Err("NotAuthorized")
    ELSE Ok([Storage EXCEPT !.KeyAccessGrants = Del(@, <<key_id, grantee>>)])

has_key_access(key_id, account, t) ==
    IF /\ Has(EncryptionKeys, key_id)
       /\ EncryptionKeys[key_id].owner = account
       /\ EncryptionKeys[key_id].active
    THEN ~(IsSome(EncryptionKeys[key_id].expires_at)
           /\ t >= Unwrap(EncryptionKeys[key_id].expires_at))
    ELSE IF Has(KeyAccessGrants, <<key_id, account>>)
    THEN (IF IsSome(KeyAccessGrants[<<key_id, account>>].expires_at)
          THEN t < Unwrap(KeyAccessGrants[<<key_id, account>>].expires_at)
          ELSE TRUE)
    ELSE FALSE

get_record_key(record_id) ==
    IF Has(RecordKeys, record_id) THEN Some(RecordKeys[record_id]) ELSE None

(***************************************************************************)
(* Initial state: empty storage at genesis.                                *)
(***************************************************************************)
NoCall == [op |-> "genesis", res |-> "Ok", key |-> <<>>, arg |-> <<>>]

Genesis ==
    /\ now = 0
    /\ last = NoCall
    /\ expiredSeen = {}
    /\ Identities = EmptyMap /\ DidToAccount = EmptyMap /\ VerificationQueue = EmptyMap
    /\ Consents = EmptyMap
    /\ OwnerConsents = [a \in Accounts |-> <<>>]
    /\ ConsumerConsents = [a \in Accounts |-> <<>>]
    /\ AccessLogs = EmptyMap
    /\ ConsentCount = 0
    /\ AccessRequests = EmptyMap /\ AccessGrants = EmptyMap /\ RequestCount = 0
    /\ EncryptionKeys = EmptyMap
    /\ AccountKeys = [a \in Accounts |-> <<>>]
    /\ RecordKeys = EmptyMap /\ KeyAccessGrants = EmptyMap /\ KeyCount = 0
    /\ Sessions = EmptyMap /\ ApiKeys = EmptyMap
    /\ AccountSessions = [a \in Accounts |-> <<>>]

\* The clock is advanced between calls (pallet_timestamp), never backwards.
Tick ==
    /\ now < MaxTime
    /\ now' = now + 1
    /\ last' = [op |-> "tick", res |-> "Ok", key |-> <<>>, arg |-> <<>>]
    /\ UNCHANGED <<focus, expiredSeen, storageVars>>

\* A signed extrinsic dispatched through the storage layer.
\* key is the entity the call addresses, arg the argument recorded with it.
CallWith(op, key, arg, body) ==
    /\ Commit(op, key, arg, Dispatch(body))
    /\ expiredSeen' = IF op = "log_access" /\ TimeExpired(key)
                      THEN expiredSeen \cup {key} ELSE expiredSeen

Call(op, key, body) == CallWith(op, key, <<>>, body)

(***************************************************************************)
(* Consent lifecycle: the calls of pallet-consent-manager between patient  *)
(* a1 and researcher a2; a3 has no identity. Identities are                *)
(* registered at clock value 0 (the consent pallet reads only role and     *)
(* active). The actions draw the arguments that reach each branch of the   *)
(* calls; the properties quantify over all callers and arguments.          *)
(***************************************************************************)
DidOf == [a \in Accounts |-> IF a = "a1" THEN "did:patientx:1"
                             ELSE IF a = "a2" THEN "did:patientx:2"
                             ELSE "did:patientx:3"]
ConsentRoleOf == [a \in Accounts |-> IF a = "a1" THEN "Patient" ELSE "Researcher"]
DataTypeVecs == {<<>>, <<"LabResults">>}
OptTimes == {None} \cup {Some(t) : t \in Times}
OptDataTypeVecs == {None} \cup {Some(v) : v \in DataTypeVecs}
\* the stored consent ids and one id that is not stored
ConsentIds == (DOMAIN Consents) \cup {generate_consent_id("a1", "a2", MaxConsents)}

ConsentRegister ==
    /\ now = 0
    /\ \E who \in {"a1", "a2"} :
        Call("register_identity", <<>>,
             register_identity(who, DidOf[who], ConsentRoleOf[who], "name", "h1"))

CreateConsentArgs ==
    {<<"a1", "a2", <<"LabResults">>, e>> : e \in Times}
    \cup {<<"a1", "a2", <<>>, 0>>, <<"a3", "a2", <<"LabResults">>, 0>>,
          <<"a1", "a3", <<"LabResults">>, 0>>}

CreateConsent ==
    /\ ConsentCount < MaxConsents
    /\ \E a \in CreateConsentArgs :
        Call("create_consent", generate_consent_id(a[1], a[2], ConsentCount),
             create_consent(a[1], a[2], "Research", a[3], a[4], "h1"))

RevokeConsent ==
    \E who \in {"a1", "a2"}, id \in ConsentIds :
        Call("revoke_consent", id, revoke_consent(who, id))

UpdateConsentArgs ==
    {<<"a1", e, None>> : e \in OptTimes}
    \cup {<<"a1", None, Some(<<>>)>>, <<"a1", None, Some(<<"LabResults">>)>>,
          <<"a2", Some(0), None>>}

UpdateConsent ==
    \E a \in UpdateConsentArgs, id \in ConsentIds :
        Call("update_consent", id, update_consent(a[1], id, a[2], a[3]))

LogAccess ==
    \E who \in {"a2"}, id \in ConsentIds :
        Call("log_access", id, log_access(who, id, "h1"))

CheckConsent ==
    \E id \in ConsentIds, accessor \in {"a2", "a3"} :
        Call("check_consent", id, check_consent("a2", id, accessor))

NextConsent ==
    \/ Tick
    \/ ConsentRegister
    \/ CreateConsent
    \/ RevokeConsent
    \/ UpdateConsent
    \/ LogAccess
    \/ CheckConsent

InitConsent == focus = "consent" /\ Genesis

SpecConsent == InitConsent /\ [][NextConsent]_vars

(***************************************************************************)
(* Consent creation: register_identity with a choice of roles,             *)
(* deactivate_identity and create_consent by and for every account, until  *)
(* the index lists are full.                                               *)
(***************************************************************************)
RoleChoices == [a \in Accounts |-> IF a = "a1" THEN {"Patient", "Auditor"}
                                   ELSE IF a = "a2" THEN {"Patient", "Researcher"}
                                   ELSE {"Researcher", "Institution"}]

CreateRegister ==
    /\ now = 0
    /\ \E who \in Accounts : \E role \in RoleChoices[who] :
        Call("register_identity", <<>>,
             register_identity(who, DidOf[who], role, "name", "h1"))

CreateDeactivate ==
    /\ now = 0
    /\ \E who \in Accounts :
        Call("deactivate_identity", <<>>, deactivate_identity(who))

CreateCreateConsent ==
    /\ ConsentCount <= IndexCap
    /\ \E owner \in Accounts, consumer \in Accounts, data_types \in DataTypeVecs,
          expires_at \in {0, 1} :
        Call("create_consent", generate_consent_id(owner, consumer, ConsentCount),
             create_consent(owner, consumer, "Research", data_types, expires_at, "h1"))

NextCreate ==
    \/ Tick
    \/ CreateRegister
    \/ CreateDeactivate
    \/ CreateCreateConsent

InitCreate == focus = "create" /\ Genesis

SpecCreate == InitCreate /\ [][NextCreate]_vars

(***************************************************************************)
(* Access control: the calls of pallet-access-control. a2 asks patient a1   *)
(* for record r1 and a3 asks for record r2.                                *)
(***************************************************************************)
Records == {"r1", "r2"}
RequestArgs == {<<"a2", "r1", "a1">>, <<"a3", "r2", "a1">>}
\* the stored request ids and one id that is not stored
RequestIds == (DOMAIN AccessRequests) \cup {generate_request_id("a2", MaxRequests)}

RequestAccess ==
    /\ RequestCount < MaxRequests
    /\ \E a \in RequestArgs :
        Call("request_access", generate_request_id(a[1], RequestCount),
             request_access(a[1], a[2], a[3], "c1"))

GrantAccess ==
    \E who \in {"a1", "a2"}, id \in RequestIds, expires_at \in Times :
        CallWith("grant_access", id, expires_at, grant_access(who, id, expires_at))

DenyAccess ==
    \E who \in {"a1", "a2"}, id \in RequestIds :
        Call("deny_access", id, deny_access(who, id))

RevokeAccess ==
    \E who \in {"a3"}, k \in {<<"r1", "a2">>, <<"r2", "a3">>, <<"r2", "a2">>} :
        Call("revoke_access", k, revoke_access(who, k[1], k[2]))

NextAccess ==
    \/ Tick
    \/ RequestAccess
    \/ GrantAccess
    \/ DenyAccess
    \/ RevokeAccess

InitAccess == focus = "access" /\ Genesis

SpecAccess == InitAccess /\ [][NextAccess]_vars

(***************************************************************************)
(* Encryption keys: the calls of pallet-encryption by a1 and a2.           *)
(***************************************************************************)
OptRecords == {None} \cup {Some(r) : r \in Records}
\* the stored key ids and one id that is not stored
KeyIds == (DOMAIN EncryptionKeys) \cup {generate_key_id("a1", MaxKeys)}
GenerateKeyArgs ==
    {<<"a1", "RecordEncryption", Some("r1"), None>>,
     <<"a1", "DataEncryption", Some("r2"), Some(1)>>,
     <<"a1", "KeyEncryption", None, None>>,
     <<"a2", "RecordEncryption", Some("r1"), None>>}
\* key access is granted and revoked on the first key generated
GrantKeyIds == {k \in KeyIds : k[2] = 0 \/ k[2] = MaxKeys}

GenerateKey ==
    /\ KeyCount < MaxKeys
    /\ \E a \in GenerateKeyArgs :
        Call("generate_key", generate_key_id(a[1], KeyCount),
             generate_key(a[1], "AES256GCM", a[2], a[3], a[4]))

RotateKey ==
    /\ KeyCount < MaxKeys
    /\ \E who \in {"a1", "a2"}, record_id \in Records, expires_at \in {None} :
        CallWith("rotate_key", generate_key_id(who, KeyCount), record_id,
                 rotate_key(who, record_id, "ChaCha20Poly1305", expires_at))

RevokeKey ==
    \E who \in {"a1", "a2"}, key_id \in KeyIds :
        Call("revoke_key", key_id, revoke_key(who, key_id))

GrantKeyAccess ==
    \E who \in {"a1", "a2"}, key_id \in GrantKeyIds, expires_at \in {None, Some(1)} :
        Call("grant_key_access", key_id, grant_key_access(who, key_id, "a3", expires_at))

RevokeKeyAccess ==
    \E who \in {"a1", "a2"}, key_id \in GrantKeyIds :
        Call("revoke_key_access", key_id, revoke_key_access(who, key_id, "a3"))

NextEnc ==
    \/ Tick
    \/ GenerateKey
    \/ RotateKey
    \/ RevokeKey
    \/ GrantKeyAccess
    \/ RevokeKeyAccess

InitEnc == focus = "encryption" /\ Genesis

SpecEnc == InitEnc /\ [][NextEnc]_vars

(***************************************************************************)
(* Identity registry: the calls of pallet-identity-registry. a1 registers  *)
(* as a patient, a2 as a researcher, a3 as an auditor, each with a DID     *)
(* drawn from two well-formed DIDs and one that is too short.              *)
(***************************************************************************)
Dids == {"did:patientx:1", "did:patientx:2", "did:short"}
Names == {"", "name"}
IdentityRoleOf == [a \in Accounts |-> IF a = "a1" THEN "Patient"
                                      ELSE IF a = "a2" THEN "Researcher"
                                      ELSE "Auditor"]

RegisterIdentity ==
    \E who \in Accounts, did \in Dids, name \in Names :
        Call("register_identity", who,
             register_identity(who, did, IdentityRoleOf[who], name, "h1"))

UpdateIdentity ==
    \E who \in {"a1"}, name \in {None, Some(""), Some("name2")} :
        Call("update_identity", who, update_identity(who, name, None))

RequestVerification ==
    \E who \in {"a1", "a2"} :
        Call("request_verification", who, request_verification(who))

VerifyIdentity ==
    \E verifier \in {"a2", "a3"}, target \in {"a1"} :
        Call("verify_identity", target, verify_identity(verifier, target))

RejectVerification ==
    \E verifier \in {"a2", "a3"}, target \in {"a1"} :
        Call("reject_verification", target, reject_verification(verifier, target, "r"))

DeactivateIdentity ==
    \E who \in {"a1", "a3"} :
        Call("deactivate_identity", who, deactivate_identity(who))

NextIdentity ==
    \/ Tick
    \/ RegisterIdentity
    \/ UpdateIdentity
    \/ RequestVerification
    \/ VerifyIdentity
    \/ RejectVerification
    \/ DeactivateIdentity

InitIdentity == focus = "identity" /\ Genesis

SpecIdentity == InitIdentity /\ [][NextIdentity]_vars

(***************************************************************************)
(* Authentication: the calls of pallet-authentication. a1 and a2 register  *)
(* an identity, a1 may deactivate it; a3 has no identity. Sessions are     *)
(* created by a1 and a3, API keys under the hash k1.                       *)
(***************************************************************************)
KeyHashes == {"k1", "k2"}
\* the stored session ids and one id that is not stored
SessionIds == (DOMAIN Sessions) \cup {generate_session_id("a3", 0)}

AuthRegister ==
    /\ now = 0
    /\ \E who \in {"a1", "a2"} :
        Call("register_identity", who,
             register_identity(who, DidOf[who], ConsentRoleOf[who], "name", "h1"))

AuthDeactivate ==
    \E who \in {"a1"} :
        Call("deactivate_identity", who, deactivate_identity(who))

CreateSession ==
    \E who \in {"a1", "a3"} :
        Call("create_session", generate_session_id(who, now), create_session(who))

RevokeSession ==
    \E who \in {"a1", "a2"}, session_id \in SessionIds :
        Call("revoke_session", session_id, revoke_session(who, session_id))

CreateApiKey ==
    \E who \in Accounts, key_hash \in {"k1"} :
        Call("create_api_key", key_hash, create_api_key(who, key_hash, "name"))

RevokeApiKey ==
    \E who \in {"a1", "a2"}, key_hash \in KeyHashes :
        Call("revoke_api_key", key_hash, revoke_api_key(who, key_hash))

NextAuth ==
    \/ Tick
    \/ AuthRegister
    \/ AuthDeactivate
    \/ CreateSession
    \/ RevokeSession
    \/ CreateApiKey
    \/ RevokeApiKey

InitAuth == focus = "auth" /\ Genesis

SpecAuth == InitAuth /\ [][NextAuth]_vars

(***************************************************************************)
(* Key access: a1 generates keys with and without an expiry and grants     *)
(* access on the first key to itself and to a3; no rotation.               *)
(***************************************************************************)
KeyAccessGenerateArgs ==
    {<<"RecordEncryption", Some("r1"), Some(1)>>, <<"KeyEncryption", None, None>>}
Grantees == {"a1", "a3"}

KeyAccessGenerateKey ==
    /\ KeyCount < MaxKeysPerAccount
    /\ \E a \in KeyAccessGenerateArgs :
        Call("generate_key", generate_key_id("a1", KeyCount),
             generate_key("a1", "AES256GCM", a[1], a[2], a[3]))

KeyAccessGrant ==
    \E who \in {"a1", "a2"}, key_id \in GrantKeyIds, grantee \in Grantees,
       expires_at \in {None, Some(MaxTime)} :
        CallWith("grant_key_access", key_id, grantee,
                 grant_key_access(who, key_id, grantee, expires_at))

KeyAccessRevokeKey ==
    \E key_id \in GrantKeyIds :
        Call("revoke_key", key_id, revoke_key("a1", key_id))

KeyAccessRevokeGrant ==
    \E key_id \in GrantKeyIds, grantee \in Grantees :
        CallWith("revoke_key_access", key_id, grantee,
                 revoke_key_access("a1", key_id, grantee))

NextKeyAccess ==
    \/ Tick
    \/ KeyAccessGenerateKey
    \/ KeyAccessGrant
    \/ KeyAccessRevokeKey
    \/ KeyAccessRevokeGrant

InitKeyAccess == focus = "keyaccess" /\ Genesis

SpecKeyAccess == InitKeyAccess /\ [][NextKeyAccess]_vars

(***************************************************************************)
(* All five pallets: each behaviour runs the calls of one of the           *)
(* specifications above, chosen at genesis.                                *)
(***************************************************************************)
Focuses == {"identity", "consent", "create", "auth", "access", "encryption"}

NextAll ==
    \/ focus = "identity" /\ NextIdentity
    \/ focus = "consent" /\ NextConsent
    \/ focus = "create" /\ NextCreate
    \/ focus = "auth" /\ NextAuth
    \/ focus = "access" /\ NextAccess
    \/ focus = "encryption" /\ NextEnc

InitAll == focus \in Focuses /\ Genesis

SpecAll == InitAll /\ [][NextAll]_vars

(***************************************************************************)
(* Properties of the consent lifecycle (SpecConsent, SpecCreate).          *)
(***************************************************************************)

\* C1: once a consent's status is Revoked, no call (create_consent,
\* revoke_consent, update_consent, log_access, check_consent) and no clock
\* step changes its status again.
C1_RevokedIsTerminal ==
    [][\A id \in DOMAIN Consents :
          Consents[id].status = "Revoked"
          => (id \in DOMAIN Consents' /\ Consents'[id].status = "Revoked")]_vars

\* A revoked consent on which update_consent has been tried at a later clock value.
C1_Witness ==
    /\ last.op = "update_consent" /\ last.res = "ConsentExpired"
    /\ Has(Consents, last.key)
    /\ Consents[last.key].status = "Revoked"
    /\ Consents[last.key].revoked_at # Some(now)
    /\ ConsentCount = MaxConsents

\* C2: once log_access has failed on a consent because its expiry time had
\* passed, every later log_access on that consent fails with ConsentExpired.
C2_ExpiredStaysExpired ==
    \A id \in expiredSeen : \A who \in Accounts :
        Dispatch(log_access(who, id, "h1")).res = "ConsentExpired"

\* C3: log_access on an Active consent whose non-zero expires_at is less than
\* now fails with ConsentExpired and leaves the stored status Expired.
C3_LogAccessFlipsToExpired ==
    [][(last'.op = "log_access" /\ TimeExpired(last'.key))
       => (last'.res = "ConsentExpired"
           /\ Consents'[last'.key].status = "Expired")]_vars

RoleGate(owner, consumer) ==
    /\ has_role(owner, "Patient")
    /\ (has_role(consumer, "Researcher") \/ has_role(consumer, "Institution"))

CreateResult(owner, consumer, data_types, expires_at) ==
    Dispatch(create_consent(owner, consumer, "Research", data_types, expires_at, "h1")).res

\* C6 as stated: create_consent succeeds if and only if the role gate holds,
\* for every choice of the other arguments and every state.
C6_RoleGateIff ==
    \A owner \in Accounts, consumer \in Accounts, data_types \in DataTypeVecs,
       expires_at \in Times :
        (CreateResult(owner, consumer, data_types, expires_at) = "Ok")
        <=> RoleGate(owner, consumer)

\* C6 amended: create_consent succeeds if and only if the role gate holds,
\* data_types is non-empty, expires_at is 0 or greater than now, and neither
\* the owner's nor the consumer's index list is full; when the role gate
\* does not hold it fails with InvalidIdentity (owner) or InvalidConsumer.
C6_RoleGateAndArguments ==
    \A owner \in Accounts, consumer \in Accounts, data_types \in DataTypeVecs,
       expires_at \in Times :
        LET res == CreateResult(owner, consumer, data_types, expires_at) IN
        /\ (res = "Ok") <=>
              /\ RoleGate(owner, consumer)
              /\ Len(data_types) > 0
              /\ (expires_at = 0 \/ expires_at > now)
              /\ Len(OwnerConsents[owner]) < IndexCap
              /\ Len(ConsumerConsents[consumer]) < IndexCap
        /\ ~has_role(owner, "Patient") => res = "InvalidIdentity"
        /\ (has_role(owner, "Patient") /\ ~RoleGate(owner, consumer))
              => res = "InvalidConsumer"

\* create_consent has succeeded for an institution, and has been refused for
\* a full index although the role gate holds.
C6_Witness ==
    /\ last.op = "create_consent" /\ last.res = "MaxConsentsReached"
    /\ \E id \in DOMAIN Consents : has_role(Consents[id].data_consumer, "Institution")

\* C10: revoke_consent by the data_owner succeeds on a consent that is not
\* Revoked, setting status Revoked and revoked_at = now; on a Revoked consent
\* (a second call) it fails with AlreadyRevoked; by any other account it fails
\* with NotAuthorized; the failing calls change nothing. Right after a
\* successful revoke the consent is Revoked.
C10_RevokeTwice ==
    /\ \A id \in DOMAIN Consents : \A who \in Accounts :
        LET c == Consents[id]
            r == Dispatch(revoke_consent(who, id))
        IN  /\ who # c.data_owner => (r.res = "NotAuthorized" /\ r.st = Storage)
            /\ (who = c.data_owner /\ c.status = "Revoked")
                  => (r.res = "AlreadyRevoked" /\ r.st = Storage)
            /\ (who = c.data_owner /\ c.status # "Revoked")
                  => /\ r.res = "Ok"
                     /\ r.st.Consents[id] = [c EXCEPT !.status = "Revoked",
                                                      !.revoked_at = Some(now)]
    /\ (last.op = "revoke_consent" /\ last.res = "Ok")
          => (Consents[last.key].status = "Revoked"
              /\ Consents[last.key].revoked_at = Some(now))

\* The second revoke_consent by the owner has been refused, at a later clock value.
C10_Witness ==
    /\ last.op = "revoke_consent" /\ last.res = "AlreadyRevoked"
    /\ Consents[last.key].status = "Revoked"
    /\ Consents[last.key].revoked_at # Some(now)

(***************************************************************************)
(* Properties of access control (SpecAccess).                              *)
(***************************************************************************)
QueryTimes == 0..(MaxTime + 1)

\* C7: has_access(record, requester, t) is true exactly when a grant is stored
\* for (record, requester) with expires_at > t; right after the patient's
\* grant_access with expires_at = E succeeded, has_access for the request's
\* record and requester is true at t = E-1 and false at every t >= E.
C7_HasAccessUntilExpiry ==
    /\ \A record_id \in Records, requester \in Accounts, t \in QueryTimes :
          has_access(record_id, requester, t)
          <=> \E k \in DOMAIN AccessGrants :
                 k = <<record_id, requester>> /\ AccessGrants[k] > t
    /\ (last.op = "grant_access" /\ last.res = "Ok")
          => LET request == AccessRequests[last.key]
                 E == last.arg
             IN  /\ E >= 1 => has_access(request.record_id, request.requester, E - 1)
                 /\ \A t \in QueryTimes :
                       t >= E => ~has_access(request.record_id, request.requester, t)

\* The patient has granted a request with expires_at = 1 after the clock had
\* already passed it: access holds at t = 0 only.
C7_Witness ==
    /\ last.op = "grant_access" /\ last.res = "Ok" /\ last.arg = 1
    /\ now = MaxTime
    /\ has_access(AccessRequests[last.key].record_id,
                  AccessRequests[last.key].requester, 0)
    /\ ~has_access(AccessRequests[last.key].record_id,
                   AccessRequests[last.key].requester, 1)

(***************************************************************************)
(* Properties of the encryption keys (SpecEnc).                            *)
(***************************************************************************)

\* C8: a successful rotate_key(record) leaves the key that was the record's
\* current key inactive, rotated and linked (rotated_to) to a new key; the new
\* key is a fresh entry that is active, not rotated, with the old key's owner,
\* purpose and record_id; get_record_key(record) returns the new key's id.
C8_RotationChain ==
    [][\A record_id \in Records :
          (last'.op = "rotate_key" /\ last'.res = "Ok" /\ last'.arg = record_id)
          => /\ Has(RecordKeys, record_id)
             /\ IsSome(get_record_key(record_id)')
             /\ LET old_key_id == RecordKeys[record_id]
                    new_key_id == Unwrap(get_record_key(record_id)')
                IN  /\ new_key_id # old_key_id
                    /\ ~Has(EncryptionKeys, new_key_id)
                    /\ Has(EncryptionKeys', old_key_id)
                    /\ Has(EncryptionKeys', new_key_id)
                    /\ EncryptionKeys'[old_key_id].active = FALSE
                    /\ EncryptionKeys'[old_key_id].rotated = TRUE
                    /\ EncryptionKeys'[old_key_id].rotated_to = Some(new_key_id)
                    /\ EncryptionKeys'[new_key_id].key_id = new_key_id
                    /\ EncryptionKeys'[new_key_id].active = TRUE
                    /\ EncryptionKeys'[new_key_id].rotated = FALSE
                    /\ EncryptionKeys'[new_key_id].owner = EncryptionKeys[old_key_id].owner
                    /\ EncryptionKeys'[new_key_id].purpose
                          = EncryptionKeys[old_key_id].purpose
                    /\ EncryptionKeys'[new_key_id].record_id
                          = EncryptionKeys[old_key_id].record_id
                    /\ EncryptionKeys'[new_key_id].record_id = Some(record_id)]_vars

\* A record's key has been rotated at a later clock value than it was generated.
C8_Witness ==
    /\ last.op = "rotate_key" /\ last.res = "Ok"
    /\ get_record_key(last.arg) = Some(last.key)
    /\ \E k1 \in DOMAIN EncryptionKeys :
          /\ EncryptionKeys[k1].rotated
          /\ EncryptionKeys[k1].rotated_to = Some(last.key)
          /\ EncryptionKeys[k1].created_at < EncryptionKeys[last.key].created_at

\* C9: for every record with an entry in RecordKeys, the indexed key exists,
\* has record_id equal to that record, is not rotated and is active.
C9_IndexPointsToActiveKey ==
    \A record_id \in DOMAIN RecordKeys :
        /\ Has(EncryptionKeys, RecordKeys[record_id])
        /\ EncryptionKeys[RecordKeys[record_id]].record_id = Some(record_id)
        /\ ~EncryptionKeys[RecordKeys[record_id]].rotated
        /\ EncryptionKeys[RecordKeys[record_id]].active

(***************************************************************************)
(* Properties of the identity registry (SpecIdentity).                     *)
(***************************************************************************)

\* C5: every identity is stored under its owner, no two identities share a
\* DID, DidToAccount[d] = a exactly when Identities[a].did = d, and
\* register_identity fails with IdentityAlreadyExists for a registered caller
\* and with DIDAlreadyExists for an unregistered caller and a taken DID.
C5_IdentityUniqueness ==
    /\ \A a \in DOMAIN Identities : Identities[a].owner = a
    /\ \A a \in DOMAIN Identities : \A b \in DOMAIN Identities :
          Identities[a].did = Identities[b].did => a = b
    /\ \A d \in Dids : \A a \in Accounts :
          (Has(DidToAccount, d) /\ DidToAccount[d] = a)
          <=> (Has(Identities, a) /\ Identities[a].did = d)
    /\ DOMAIN DidToAccount \subseteq Dids
    /\ \A who \in Accounts, did \in Dids, name \in Names :
          LET r == Dispatch(register_identity(who, did, IdentityRoleOf[who], name, "h1"))
          IN  /\ Has(Identities, who) => r.res = "IdentityAlreadyExists"
              /\ (~Has(Identities, who) /\ Has(DidToAccount, did))
                    => r.res = "DIDAlreadyExists"

\* Two accounts are registered and a third has been refused a taken DID.
C5_Witness ==
    /\ last.op = "register_identity" /\ last.res = "DIDAlreadyExists"
    /\ ~Has(Identities, last.key)
    /\ Cardinality(DOMAIN Identities) = 2
    /\ Cardinality(DOMAIN DidToAccount) = 2

(***************************************************************************)
(* Properties of all pallets (SpecAll).                                    *)
(***************************************************************************)
\* The Error enum of the pallet a call belongs to.
ErrorsOf(op) ==
    IF op \in {"register_identity", "update_identity", "request_verification",
               "verify_identity", "reject_verification", "deactivate_identity"}
    THEN IdentityErrors
    ELSE IF op \in {"create_consent", "revoke_consent", "update_consent", "log_access",
                    "check_consent"}
    THEN ConsentErrors
    ELSE IF op \in {"create_session", "revoke_session", "create_api_key",
                    "revoke_api_key"}
    THEN AuthErrors
    ELSE IF op \in {"request_access", "grant_access", "deny_access", "revoke_access"}
    THEN AccessErrors
    ELSE IF op \in {"generate_key", "rotate_key", "revoke_key", "grant_key_access",
                    "revoke_key_access"}
    THEN EncryptionErrors
    ELSE {}

\* C4: every call of the five pallets returns Ok or one error of its pallet's
\* Error enum, and a call that returns an error leaves every storage item
\* (entity maps, index lists, counters) as it was before the call.
C4_ErrorsChangeNothing ==
    [][/\ last'.res \in {"Ok"} \cup ErrorsOf(last'.op)
       /\ last'.res # "Ok" => UNCHANGED storageVars]_vars

\* create_consent has been refused with MaxConsentsReached on the consumer's
\* index list while the owner's list still had room.
C4_Witness ==
    /\ last.op = "create_consent" /\ last.res = "MaxConsentsReached"
    /\ Len(ConsumerConsents[last.key[2]]) = IndexCap
    /\ Len(OwnerConsents[last.key[1]]) < IndexCap
    /\ ~Has(Consents, last.key)
    /\ ConsentCount = IndexCap

(***************************************************************************)
(* Properties of identity verification and deactivation (SpecIdentity).    *)
(***************************************************************************)

\* C11: verify_identity and reject_verification by a caller that is not an
\* active Auditor (no identity, another role, or a deactivated Auditor) fail
\* with NotAuthorized and change nothing.
C11_OnlyActiveAuditorVerifies ==
    \A verifier \in Accounts, target \in Accounts :
        ~has_role(verifier, "Auditor")
        => /\ Dispatch(verify_identity(verifier, target)).res = "NotAuthorized"
           /\ Dispatch(verify_identity(verifier, target)).st = Storage
           /\ Dispatch(reject_verification(verifier, target, "r")).res = "NotAuthorized"
           /\ Dispatch(reject_verification(verifier, target, "r")).st = Storage

\* The identity-registry calls, by any caller and with any arguments.
IdentityCalls ==
    {register_identity(who, did, role, name, "h1") :
        who \in Accounts, did \in Dids, role \in UserRole, name \in Names}
    \cup {update_identity(who, name, email_hash) :
        who \in Accounts, name \in {None, Some(""), Some("name2")},
        email_hash \in {None, Some("h2")}}
    \cup {request_verification(who) : who \in Accounts}
    \cup {verify_identity(verifier, target) : verifier \in Accounts, target \in Accounts}
    \cup {reject_verification(verifier, target, "r") :
        verifier \in Accounts, target \in Accounts}
    \cup {deactivate_identity(who) : who \in Accounts}

\* C12: in every reachable state, for an identity whose active flag is false,
\* is_active_identity, has_role (for every role) and is_verified are false,
\* and after any identity-registry call by any account the identity is still
\* stored and still inactive.
C12_DeactivationIsTerminal ==
    \A a \in DOMAIN Identities :
        ~Identities[a].active
        => /\ ~is_active_identity(a)
           /\ ~is_verified(a)
           /\ \A role \in UserRole : ~has_role(a, role)
           /\ \A r \in IdentityCalls :
                 /\ Has(Dispatch(r).st.Identities, a)
                 /\ ~Dispatch(r).st.Identities[a].active

\* A deactivated identity has been verified by the auditor at a later clock
\* value: its status is Verified and it is still inactive.
C12_Witness ==
    /\ last.op = "verify_identity" /\ last.res = "Ok"
    /\ ~Identities[last.key].active
    /\ Identities[last.key].verification_status = "Verified"
    /\ Identities[last.key].updated_at = MaxTime
    /\ ~is_verified(last.key)

(***************************************************************************)
(* Properties of consent validity and update (SpecConsent, SpecCreate).    *)
(***************************************************************************)

\* C13: for every consent id and accessor, is_consent_valid(id, accessor, now)
\* is true exactly when check_consent(id, accessor) dispatched at the clock
\* value now returns Ok.
C13_HelperAgreesWithCheckConsent ==
    \A id \in ConsentIds, accessor \in Accounts, who \in Accounts :
        is_consent_valid(id, accessor, now)
        <=> (Dispatch(check_consent(who, id, accessor)).res = "Ok")

(***************************************************************************)
(* Properties of access requests and grants (SpecAccess).                  *)
(***************************************************************************)

\* C14: once an AccessRequest's status is Granted or Denied, no step changes
\* its status or its responded_at.
C14_RequestResolvedOnce ==
    [][\A id \in DOMAIN AccessRequests :
          AccessRequests[id].status # "Pending"
          => /\ Has(AccessRequests', id)
             /\ AccessRequests'[id].status = AccessRequests[id].status
             /\ AccessRequests'[id].responded_at = AccessRequests[id].responded_at]_vars

\* The access-control calls that are not grant_access, by any caller.
OtherAccessCalls ==
    {request_access(requester, record_id, patient, "c1") :
        requester \in Accounts, record_id \in Records, patient \in Accounts}
    \cup {deny_access(who, id) : who \in Accounts, id \in RequestIds}
    \cup {revoke_access(who, record_id, requester) :
        who \in Accounts, record_id \in Records, requester \in Accounts}

\* C15: grant_access and deny_access fail with RequestNotFound for an unknown
\* id and with NotAuthorized for a caller other than the request's patient,
\* changing nothing; for the patient they succeed, and grant_access writes
\* exactly the grant for the request's (record, requester). No other call
\* adds or changes an AccessGrant.
C15_OnlyPatientResolves ==
    /\ \A id \in RequestIds, who \in Accounts, expires_at \in Times :
          LET g == Dispatch(grant_access(who, id, expires_at))
              d == Dispatch(deny_access(who, id))
          IN  IF ~Has(AccessRequests, id)
              THEN /\ g.res = "RequestNotFound" /\ g.st = Storage
                   /\ d.res = "RequestNotFound" /\ d.st = Storage
              ELSE IF AccessRequests[id].patient # who
              THEN /\ g.res = "NotAuthorized" /\ g.st = Storage
                   /\ d.res = "NotAuthorized" /\ d.st = Storage
              ELSE /\ g.res = "Ok" /\ d.res = "Ok"
                   /\ g.st.AccessGrants
                        = Put(AccessGrants, <<AccessRequests[id].record_id,
                                              AccessRequests[id].requester>>, expires_at)
                   /\ d.st.AccessGrants = AccessGrants
    /\ \A r \in OtherAccessCalls :
          \A k \in DOMAIN Dispatch(r).st.AccessGrants :
              Has(AccessGrants, k) /\ AccessGrants[k] = Dispatch(r).st.AccessGrants[k]
    /\ \A k \in DOMAIN AccessGrants :
          \E id \in DOMAIN AccessRequests :
              k = <<AccessRequests[id].record_id, AccessRequests[id].requester>>

\* The requester has tried to grant their own pending request and was refused.
C15_Witness ==
    /\ last.op = "grant_access" /\ last.res = "NotAuthorized"
    /\ AccessRequests[last.key].status = "Pending"
    /\ ~Has(AccessGrants, <<AccessRequests[last.key].record_id,
                           AccessRequests[last.key].requester>>)
    /\ AccessGrants # EmptyMap

\* C16: revoke_access(record, requester) returns Ok for every caller, whether
\* or not the grant exists; it removes the grant for (record, requester) and
\* changes nothing else (the other grants and every AccessRequest stay as
\* they are). Right after a revoke_access, has_access is false for that pair
\* at every time and repeating the call changes nothing.
C16_RevokeAccessFrame ==
    /\ \A who \in Accounts, record_id \in Records, requester \in Accounts :
          LET r == Dispatch(revoke_access(who, record_id, requester))
          IN  /\ r.res = "Ok"
              /\ ~Has(r.st.AccessGrants, <<record_id, requester>>)
              /\ r.st = [Storage EXCEPT
                            !.AccessGrants = Del(@, <<record_id, requester>>)]
              /\ r.st.AccessRequests = AccessRequests
              /\ \A k \in DOMAIN AccessGrants :
                    k # <<record_id, requester>>
                    => (Has(r.st.AccessGrants, k)
                        /\ r.st.AccessGrants[k] = AccessGrants[k])
    /\ last.op = "revoke_access"
          => /\ last.res = "Ok"
             /\ ~Has(AccessGrants, last.key)
             /\ \A t \in QueryTimes : ~has_access(last.key[1], last.key[2], t)
             /\ \A who \in Accounts :
                   Dispatch(revoke_access(who, last.key[1], last.key[2])).st = Storage

\* A third party has revoked a grant the patient had given: the request is
\* still Granted and the grant is gone.
C16_Witness ==
    /\ last.op = "revoke_access" /\ last.res = "Ok"
    /\ \E id \in DOMAIN AccessRequests :
          /\ AccessRequests[id].status = "Granted"
          /\ <<AccessRequests[id].record_id, AccessRequests[id].requester>> = last.key
    /\ ~Has(AccessGrants, last.key)
    /\ AccessGrants # EmptyMap

(***************************************************************************)
(* Properties of key access and rotation at the cap (SpecKeyAccess,        *)
(* SpecEnc).                                                               *)
(***************************************************************************)

\* C17: has_key_access(key, account, t) is true exactly when the account is
\* the owner of the active key and the key has no expiry or t < expires_at,
\* or a KeyAccess grant exists for (key, account) with no expiry or
\* t < its expires_at.
C17_KeyAccessIsOwnerOrGrant ==
    \A key_id \in KeyIds, account \in Accounts, t \in QueryTimes :
        has_key_access(key_id, account, t)
        <=> \/ /\ Has(EncryptionKeys, key_id)
               /\ EncryptionKeys[key_id].owner = account
               /\ EncryptionKeys[key_id].active
               /\ (IsSome(EncryptionKeys[key_id].expires_at)
                     => t < Unwrap(EncryptionKeys[key_id].expires_at))
            \/ /\ Has(KeyAccessGrants, <<key_id, account>>)
               /\ (IsSome(KeyAccessGrants[<<key_id, account>>].expires_at)
                     => t < Unwrap(KeyAccessGrants[<<key_id, account>>].expires_at))

\* C18: rotate_key by the owner of the record's key, with the owner's key
\* list at MaxKeysPerAccount, fails with MaxKeysReached and leaves storage as
\* it was: the old key keeps active, rotated and rotated_to, no key is added,
\* the record index and the key counter are unchanged.
C18_RotateAtCapChangesNothing ==
    [][/\ \A who \in Accounts, record_id \in Records :
             (/\ Has(RecordKeys, record_id)
              /\ Has(EncryptionKeys, RecordKeys[record_id])
              /\ EncryptionKeys[RecordKeys[record_id]].owner = who
              /\ Len(AccountKeys[who]) >= MaxKeysPerAccount)
             => LET r == Dispatch(rotate_key(who, record_id, "ChaCha20Poly1305", None))
                IN  r.res = "MaxKeysReached" /\ r.st = Storage
       /\ (last'.op = "rotate_key" /\ last'.res = "MaxKeysReached")
             => /\ EncryptionKeys' = EncryptionKeys
                /\ ~Has(EncryptionKeys', last'.key)
                /\ RecordKeys' = RecordKeys
                /\ AccountKeys' = AccountKeys
                /\ KeyCount' = KeyCount
                /\ UNCHANGED storageVars]_vars

\* rotate_key has been refused at the cap: the record's key is still the
\* active, unrotated old key and the key the call would have added is absent.
C18_Witness ==
    /\ last.op = "rotate_key" /\ last.res = "MaxKeysReached"
    /\ Has(RecordKeys, last.arg)
    /\ EncryptionKeys[RecordKeys[last.arg]].active
    /\ ~EncryptionKeys[RecordKeys[last.arg]].rotated
    /\ EncryptionKeys[RecordKeys[last.arg]].rotated_to = None
    /\ ~Has(EncryptionKeys, last.key)
    /\ Len(AccountKeys[EncryptionKeys[RecordKeys[last.arg]].owner]) = MaxKeysPerAccount
    /\ KeyCount = MaxKeysPerAccount

(***************************************************************************)
(* Properties of create_consent and update_consent (SpecCreate,            *)
(* SpecConsent).                                                           *)
(***************************************************************************)
\* An account whose identity is deactivated.
Deactivated(a) == Has(Identities, a) /\ ~Identities[a].active

\* C19: for a deactivated account has_role is false for every role and
\* every create_consent by it fails with InvalidIdentity; create_consent
\* naming it as consumer never succeeds: it fails with InvalidConsumer when
\* the caller passes the Patient check (with InvalidIdentity when the caller
\* does not, the caller being checked first). An account with no identity
\* gets InvalidIdentity.
C19_DeactivatedRefused ==
    \A a \in Accounts, other \in Accounts, data_types \in DataTypeVecs,
       expires_at \in Times :
        /\ Deactivated(a)
              => /\ \A role \in UserRole : ~has_role(a, role)
                 /\ CreateResult(a, other, data_types, expires_at) = "InvalidIdentity"
                 /\ CreateResult(other, a, data_types, expires_at)
                      = IF has_role(other, "Patient") THEN "InvalidConsumer"
                        ELSE "InvalidIdentity"
        /\ ~Has(Identities, a)
              => CreateResult(a, other, data_types, expires_at) = "InvalidIdentity"

\* An active patient has named a deactivated researcher or institution as
\* consumer, at a later clock value, and was refused.
C19_Witness ==
    /\ last.op = "create_consent" /\ last.res = "InvalidConsumer"
    /\ has_role(last.key[1], "Patient")
    /\ Deactivated(last.key[2])
    /\ Identities[last.key[2]].role \in {"Researcher", "Institution"}
    /\ now > Identities[last.key[2]].updated_at


\* C20: update_consent checks, in this order: the caller is the consent's
\* data_owner (else NotAuthorized), the stored status is Active (else
\* ConsentExpired, also for Revoked), a supplied non-zero expiry is strictly
\* greater than now (else InvalidExpiryTime), supplied data types are
\* non-empty (else InvalidDataTypes). A failing call changes nothing, so
\* neither expires_at nor data_types; a successful call stores the supplied
\* expiry and data types and leaves status, owner, consumer, purpose,
\* access_count and every other field and storage item unchanged.
C20_UpdateConsentContract ==
    /\ \A id \in DOMAIN Consents, who \in Accounts,
          new_expires_at \in {None} \cup {Some(t) : t \in 0..(MaxTime + 1)},
          new_data_types \in {None, Some(<<>>), Some(<<"LabResults">>),
                              Some(<<"Genomic", "Imaging">>)} :
        LET c == Consents[id]
            r == Dispatch(update_consent(who, id, new_expires_at, new_data_types))
            expected ==
                IF who # c.data_owner THEN "NotAuthorized"
                ELSE IF c.status # "Active" THEN "ConsentExpired"
                ELSE IF IsSome(new_expires_at) /\ Unwrap(new_expires_at) # 0
                        /\ Unwrap(new_expires_at) <= now
                     THEN "InvalidExpiryTime"
                ELSE IF new_data_types = Some(<<>>) THEN "InvalidDataTypes"
                ELSE "Ok"
            u == r.st.Consents[id]
        IN  /\ r.res = expected
            /\ r.res # "Ok" => r.st = Storage
            /\ r.res = "Ok"
                 => /\ u.expires_at = IF IsSome(new_expires_at)
                                      THEN Unwrap(new_expires_at) ELSE c.expires_at
                    /\ u.data_types = IF IsSome(new_data_types)
                                      THEN Unwrap(new_data_types) ELSE c.data_types
                    /\ u = [c EXCEPT !.expires_at = u.expires_at,
                                     !.data_types = u.data_types]
                    /\ r.st = [Storage EXCEPT !.Consents = Put(Consents, id, u)]
    /\ (last.op = "update_consent" /\ last.res # "Ok"
          /\ last.res # "ConsentNotFound")
          => last.res \in {"NotAuthorized", "ConsentExpired",
                           "InvalidExpiryTime", "InvalidDataTypes"}

\* The owner's update_consent on a Revoked consent without expiry has been
\* refused with ConsentExpired.
C20_Witness ==
    /\ last.op = "update_consent" /\ last.res = "ConsentExpired"
    /\ Has(Consents, last.key)
    /\ Consents[last.key].status = "Revoked"
    /\ Consents[last.key].expires_at = 0


(***************************************************************************)
(* Properties of sessions (SpecAuth).                                      *)
(***************************************************************************)
\* C21: a session is valid at t exactly when it is stored, active and
\* expires_at > t, with expires_at = created_at + SessionDuration; and a
\* session that has been revoked (active = false) is valid at no time in any
\* later state, whatever call is made next.
C21_RevokedSessionStaysInvalid ==
    [][/\ \A s \in DOMAIN Sessions : \A t \in QueryTimes :
            /\ Sessions[s].expires_at = Sessions[s].created_at + SessionDuration
            /\ is_session_valid(s, t)
                 <=> (Sessions[s].active /\ Sessions[s].expires_at > t)
       /\ \A s \in DOMAIN Sessions :
            ~Sessions[s].active
               => \A t \in QueryTimes : ~is_session_valid(s, t)']_vars


C23_ReservedStatusesUnused ==
    /\ \A id \in DOMAIN Consents :
        /\ Consents[id].status # "Pending"
        /\ Consents[id].status \in {"Active", "Revoked", "Expired"}
    /\ \A id \in DOMAIN AccessRequests :
        /\ AccessRequests[id].status # "Expired"
        /\ AccessRequests[id].status \in {"Pending", "Granted", "Denied"}

\* A consent that log_access found time-expired has been revoked afterwards.
C23_Witness ==
    /\ last.op = "revoke_consent" /\ last.res = "Ok"
    /\ last.key \in expiredSeen
    /\ Consents[last.key].status = "Revoked"


\* C24: check_consent never changes any state: whether it succeeds or fails
\* (also when it finds the consent time-expired), the consent records with
\* their status, access_count and last_accessed, the access logs, both
\* indices and every other storage item are the same before and after.
C24_CheckConsentChangesNothing ==
    [][last'.op = "check_consent"
       => /\ last'.res \in {"Ok", "ConsentNotFound", "ConsentExpired", "NotAuthorized"}
          /\ Consents' = Consents
          /\ AccessLogs' = AccessLogs
          /\ OwnerConsents' = OwnerConsents
          /\ ConsumerConsents' = ConsumerConsents
          /\ UNCHANGED storageVars]_vars

\* check_consent has refused a consent whose expiry time has passed, and the
\* stored status is still Active.
C24_Witness ==
    /\ last.op = "check_consent" /\ last.res = "ConsentExpired"
    /\ TimeExpired(last.key)
    /\ Consents[last.key].access_count > 0


\* C25: a consent without expiry (expires_at = 0) never time-expires: at
\* every clock value, as long as its status is Active, check_consent for its
\* data_consumer succeeds, log_access succeeds until the access log is full
\* (then MaxAccessLogsReached), and is_consent_valid is true at every time;
\* and create_consent by an active Patient for an active consumer with
\* data types and a non-zero expires_at <= now fails with InvalidExpiryTime.
C25_NoExpiryNeverExpires ==
    /\ \A id \in DOMAIN Consents :
        LET c == Consents[id] IN
        (c.expires_at = 0 /\ c.status = "Active")
           => /\ \A who \in Accounts :
                   /\ Dispatch(check_consent(who, id, c.data_consumer)).res = "Ok"
                   /\ Dispatch(log_access(who, id, "h1")).res
                        = IF Len(GetOr(AccessLogs, id, <<>>)) < LogCap
                          THEN "Ok" ELSE "MaxAccessLogsReached"
              /\ \A t \in QueryTimes : is_consent_valid(id, c.data_consumer, t)
    /\ \A owner \in Accounts, consumer \in Accounts, expires_at \in 1..MaxTime :
        (RoleGate(owner, consumer) /\ expires_at <= now)
           => CreateResult(owner, consumer, <<"LabResults">>, expires_at)
                = "InvalidExpiryTime"

\* log_access has succeeded at the last clock value on a consent that was
\* created at time 0 without expiry.
C25_Witness ==
    /\ last.op = "log_access" /\ last.res = "Ok"
    /\ now = MaxTime
    /\ Consents[last.key].expires_at = 0
    /\ Consents[last.key].created_at = 0
    /\ Consents[last.key].last_accessed = Some(MaxTime)


\* C26: get_active_consents_for_owner(o) returns exactly the stored consents
\* with data_owner = o and status Active, each once, and
\* get_active_consents_for_consumer(c) exactly those with data_consumer = c
\* and status Active, each once; a revoked consent is left out although its
\* id stays in the index; and every consent-manager call by any caller
\* leaves each index list as it was or appends to it.
C26_ActiveConsentsExact ==
    LET Once(seq, c) == Cardinality({i \in 1..Len(seq) : seq[i] = c}) = 1
        Elems(seq) == {seq[i] : i \in 1..Len(seq)}
        IsPrefix(p, q) == Len(p) <= Len(q) /\ SubSeq(q, 1, Len(p)) = p
        ActiveOf(field, a) ==
            {Consents[id] : id \in {i \in DOMAIN Consents :
                                       Consents[i][field] = a
                                       /\ Consents[i].status = "Active"}}
        calls ==
            {create_consent(o, c, "Research", <<"LabResults">>, e, "h1") :
                 o \in Accounts, c \in Accounts, e \in {0, MaxTime}}
            \cup {revoke_consent(w, id) : w \in Accounts, id \in ConsentIds}
            \cup {update_consent(w, id, e, None) : w \in Accounts, id \in ConsentIds,
                                                   e \in {None, Some(0)}}
            \cup {log_access(w, id, "h1") : w \in Accounts, id \in ConsentIds}
            \cup {check_consent(w, id, c) : w \in Accounts, id \in ConsentIds,
                                            c \in Accounts}
    IN  \A a \in Accounts :
         /\ Elems(get_active_consents_for_owner(a)) = ActiveOf("data_owner", a)
         /\ Elems(get_active_consents_for_consumer(a)) = ActiveOf("data_consumer", a)
         /\ \A c \in ActiveOf("data_owner", a) :
                Once(get_active_consents_for_owner(a), c)
         /\ \A c \in ActiveOf("data_consumer", a) :
                Once(get_active_consents_for_consumer(a), c)
         /\ \A id \in DOMAIN Consents :
                Consents[id].status = "Revoked"
                   => /\ id \in Elems(OwnerConsents[Consents[id].data_owner])
                      /\ id \in Elems(ConsumerConsents[Consents[id].data_consumer])
         /\ \A r \in calls :
                /\ IsPrefix(OwnerConsents[a], Dispatch(r).st.OwnerConsents[a])
                /\ IsPrefix(ConsumerConsents[a], Dispatch(r).st.ConsumerConsents[a])

\* The owner's index holds two ids, one of a revoked and one of an active
\* consent, and the helper returns only the active one.
C26_Witness ==
    /\ Len(OwnerConsents["a1"]) = 2
    /\ Len(get_active_consents_for_owner("a1")) = 1
    /\ Len(get_active_consents_for_consumer("a2")) = 1
    /\ \E id \in DOMAIN Consents : Consents[id].status = "Revoked"


(***************************************************************************)
(* Properties of identity updates and verification (SpecIdentity).         *)
(***************************************************************************)
\* C27: update_identity fails with IdentityNotFound for an account without
\* identity and with IdentityNotActive for a deactivated one, and no failing
\* call changes anything; a successful call changes only the supplied name
\* and/or email_hash and sets updated_at = now; and no identity-registry call
\* by any account changes the did, role or owner of a stored identity.
C27_UpdateIdentityFrame ==
    /\ \A who \in Accounts, name \in {None, Some(""), Some("name2")},
          email_hash \in {None, Some("h2")} :
        LET r == Dispatch(update_identity(who, name, email_hash)) IN
        /\ ~Has(Identities, who) => r.res = "IdentityNotFound"
        /\ (Has(Identities, who) /\ ~Identities[who].active)
              => r.res = "IdentityNotActive"
        /\ r.res # "Ok" => r.st = Storage
        /\ r.res = "Ok"
              => LET i == Identities[who]
                     u == r.st.Identities[who]
                 IN  /\ i.active
                     /\ u.name = IF IsSome(name) THEN Unwrap(name) ELSE i.name
                     /\ u.email_hash = IF IsSome(email_hash) THEN Unwrap(email_hash)
                                       ELSE i.email_hash
                     /\ u.updated_at = now
                     /\ u = [i EXCEPT !.name = u.name, !.email_hash = u.email_hash,
                                      !.updated_at = now]
                     /\ r.st = [Storage EXCEPT !.Identities = Put(Identities, who, u)]
    /\ \A a \in DOMAIN Identities : \A r \in IdentityCalls :
        LET u == Dispatch(r).st.Identities IN
        /\ Has(u, a)
        /\ u[a].did = Identities[a].did
        /\ u[a].role = Identities[a].role
        /\ u[a].owner = Identities[a].owner
        /\ Identities[a].owner = a

\* update_identity has changed the name of an identity at a later clock
\* value than its registration.
C27_Witness ==
    /\ last.op = "update_identity" /\ last.res = "Ok"
    /\ Identities[last.key].name = "name2"
    /\ Identities[last.key].updated_at = now
    /\ Identities[last.key].registered_at < now


\* C28: request_verification fails with IdentityNotFound (no identity),
\* IdentityNotActive (deactivated) or VerificationAlreadyPending (caller
\* already queued) without changing state, and otherwise sets the caller's
\* verification_status to Pending and puts the caller in the verification
\* queue with the current time; in every reachable state an account is in
\* the queue if and only if its identity's verification_status is Pending.
C28_QueueIffPending ==
    /\ \A who \in Accounts :
        LET r == Dispatch(request_verification(who))
            expected ==
                IF ~Has(Identities, who) THEN "IdentityNotFound"
                ELSE IF ~Identities[who].active THEN "IdentityNotActive"
                ELSE IF Has(VerificationQueue, who) THEN "VerificationAlreadyPending"
                ELSE "Ok"
        IN  /\ r.res = expected
            /\ r.res # "Ok" => r.st = Storage
            /\ r.res = "Ok"
                 => r.st = [Storage EXCEPT
                               !.VerificationQueue = Put(VerificationQueue, who, now),
                               !.Identities = Put(Identities, who,
                                   [Identities[who] EXCEPT
                                       !.verification_status = "Pending"])]
    /\ \A a \in Accounts :
        Has(VerificationQueue, a)
           <=> (Has(Identities, a) /\ Identities[a].verification_status = "Pending")

\* A second request_verification by an account that is already queued has
\* been refused, after an earlier verification of the same account.
C28_Witness ==
    /\ last.op = "request_verification"
    /\ last.res = "VerificationAlreadyPending"
    /\ Has(VerificationQueue, last.key)
    /\ Identities[last.key].verification_status = "Pending"
    /\ Identities[last.key].updated_at > Identities[last.key].registered_at


(***************************************************************************)
(* Properties of key generation and revocation (SpecEnc).                  *)
(***************************************************************************)
\* C29: in every reachable state, for every record at most one stored key
\* has that record_id and active = true; and generate_key for a record that
\* already has an entry in RecordKeys fails for every caller, with
\* RecordAlreadyHasKey (with MaxKeysReached when the caller's key list is
\* full, which is checked first), and changes nothing.
C29_OneActiveKeyPerRecord ==
    /\ \A record_id \in Records :
        Cardinality({k \in DOMAIN EncryptionKeys :
                        /\ EncryptionKeys[k].record_id = Some(record_id)
                        /\ EncryptionKeys[k].active}) <= 1
    /\ \A record_id \in DOMAIN RecordKeys : \A owner \in Accounts :
        LET r == Dispatch(generate_key(owner, "AES256GCM", "RecordEncryption",
                                       Some(record_id), None))
        IN  /\ r.res = IF Len(AccountKeys[owner]) < MaxKeysPerAccount
                       THEN "RecordAlreadyHasKey" ELSE "MaxKeysReached"
            /\ r.st = Storage

\* generate_key for a record has been refused with RecordAlreadyHasKey after
\* the record's key was rotated and the new key revoked: the record has two
\* stored keys and none of them is active.
C29_Witness ==
    /\ last.op = "generate_key" /\ last.res = "RecordAlreadyHasKey"
    /\ \E record_id \in DOMAIN RecordKeys :
        /\ Cardinality({k \in DOMAIN EncryptionKeys :
                           EncryptionKeys[k].record_id = Some(record_id)}) = 2
        /\ \A k \in DOMAIN EncryptionKeys :
              EncryptionKeys[k].record_id = Some(record_id) => ~EncryptionKeys[k].active


\* C30: key deactivation is permanent and the rotation chain is well formed:
\* for a key whose active flag is false, no encryption call by any account
\* sets it true again; revoke_key by a non-owner fails with NotAuthorized and
\* by the owner on an inactive (revoked or rotated) key with
\* KeyAlreadyRevoked, changing nothing; and every key with rotated = true is
\* inactive and its rotated_to names a stored key with the same owner and
\* record_id.
C30_DeactivationPermanent ==
    LET calls ==
            {generate_key(w, "AES256GCM", "RecordEncryption", rid, None) :
                 w \in Accounts, rid \in {None} \cup {Some(x) : x \in Records}}
            \cup {rotate_key(w, rid, "ChaCha20Poly1305", None) :
                 w \in Accounts, rid \in Records}
            \cup {revoke_key(w, k) : w \in Accounts, k \in KeyIds}
            \cup {grant_key_access(w, k, "a3", None) : w \in Accounts, k \in KeyIds}
            \cup {revoke_key_access(w, k, "a3") : w \in Accounts, k \in KeyIds}
    IN
    /\ \A r \in calls :
         LET after == Dispatch(r).st.EncryptionKeys IN
         \A k \in DOMAIN EncryptionKeys :
            ~EncryptionKeys[k].active => (Has(after, k) /\ ~after[k].active)
    /\ \A k \in DOMAIN EncryptionKeys :
         LET key == EncryptionKeys[k] IN
         /\ \A who \in Accounts :
               LET r == Dispatch(revoke_key(who, k)) IN
               /\ who # key.owner => (r.res = "NotAuthorized" /\ r.st = Storage)
               /\ (who = key.owner /\ ~key.active)
                     => (r.res = "KeyAlreadyRevoked" /\ r.st = Storage)
         /\ key.rotated
               => /\ ~key.active
                  /\ IsSome(key.rotated_to)
                  /\ Has(EncryptionKeys, Unwrap(key.rotated_to))
                  /\ EncryptionKeys[Unwrap(key.rotated_to)].owner = key.owner
                  /\ EncryptionKeys[Unwrap(key.rotated_to)].record_id = key.record_id

\* The owner's revoke_key on a key that had been rotated away has been
\* refused with KeyAlreadyRevoked.
C30_Witness ==
    /\ last.op = "revoke_key" /\ last.res = "KeyAlreadyRevoked"
    /\ Has(EncryptionKeys, last.key)
    /\ EncryptionKeys[last.key].rotated
    /\ ~EncryptionKeys[last.key].active


(***************************************************************************)
(* Properties of revoked keys (SpecEnc).                                   *)
(***************************************************************************)
\* C31: right after a successful revoke_key(k) by the owner,
\* has_key_access(k, a, t) is false for every account a and every time t,
\* also for accounts that were given a KeyAccess grant on k before.
C31_RevokedKeyGivesNoAccess ==
    [][\A k \in DOMAIN EncryptionKeys :
          (last'.op = "revoke_key" /\ last'.res = "Ok" /\ last'.key = k)
          => \A a \in Accounts, t \in QueryTimes : ~has_key_access(k, a, t)']_vars


\* C32: rotate_key on a record whose current key (the one RecordKeys names)
\* is inactive does not succeed, for any caller, so it creates no new active
\* key for the record and changes nothing.
C32_NoRotationOfRevokedKey ==
    \A record_id \in DOMAIN RecordKeys :
        (/\ Has(EncryptionKeys, RecordKeys[record_id])
         /\ ~EncryptionKeys[RecordKeys[record_id]].active)
        => \A who \in Accounts :
              LET r == Dispatch(rotate_key(who, record_id, "ChaCha20Poly1305", None))
              IN  r.res # "Ok" /\ r.st = Storage


(***************************************************************************)
(* Properties of access grants and requests (SpecAccess).                  *)
(***************************************************************************)
\* C33: whenever an AccessGrant is stored for (record, requester), some
\* stored AccessRequest for that record and requester has status Granted; so
\* after the patient has denied a request, its requester holds no grant on
\* the record through it.
C33_GrantHasGrantedRequest ==
    \A g \in DOMAIN AccessGrants :
        \E id \in DOMAIN AccessRequests :
            /\ AccessRequests[id].record_id = g[1]
            /\ AccessRequests[id].requester = g[2]
            /\ AccessRequests[id].status = "Granted"


(***************************************************************************)
(* Properties of the consent bookkeeping (SpecConsent, SpecCreate).        *)
(***************************************************************************)
\* C34: for every stored consent access_count equals the length of its
\* access log and every log entry has approved = true; a successful
\* log_access increases both by exactly one, sets last_accessed = now and
\* changes nothing else of the consent, so not its status; when the log is
\* full, log_access on an Active, unexpired consent fails with
\* MaxAccessLogsReached and changes nothing, so access_count stays.
C34_AccessCountMatchesLog ==
    /\ DOMAIN AccessLogs \subseteq DOMAIN Consents
    /\ \A id \in DOMAIN Consents :
        LET c == Consents[id]
            logs == GetOr(AccessLogs, id, <<>>)
        IN  /\ c.access_count = Len(logs)
            /\ Len(logs) <= LogCap
            /\ \A i \in 1..Len(logs) : logs[i].approved /\ logs[i].consent_id = id
            /\ \A who \in Accounts :
                 LET r == Dispatch(log_access(who, id, "h1")) IN
                 /\ r.res = "Ok"
                      => /\ Len(logs) < LogCap
                         /\ r.st.Consents[id]
                              = [c EXCEPT !.access_count = c.access_count + 1,
                                          !.last_accessed = Some(now)]
                         /\ r.st.Consents[id].status = c.status
                         /\ r.st.AccessLogs[id]
                              = Append(logs, [consent_id |-> id, accessor |-> who,
                                              accessed_at |-> now, data_hash |-> "h1",
                                              approved |-> TRUE])
                 /\ (Len(logs) >= LogCap /\ c.status = "Active" /\ ~TimeExpired(id))
                      => (r.res = "MaxAccessLogsReached" /\ r.st = Storage)

\* log_access has been refused on a consent whose log is full, at a later
\* clock value than the access that was logged.
C34_Witness ==
    /\ last.op = "log_access" /\ last.res = "MaxAccessLogsReached"
    /\ Consents[last.key].access_count = LogCap
    /\ Len(AccessLogs[last.key]) = LogCap
    /\ Consents[last.key].last_accessed # Some(now)


\* C35: every successful create_consent stores the consent under an id that
\* was not in use, leaves every stored consent as it was and increments
\* ConsentCount by one; and in every reachable state the id of every stored
\* consent occurs exactly once in the owner index of its data_owner, exactly
\* once in the consumer index of its data_consumer, and in no other
\* account's index.
C35_ConsentBookkeeping ==
    LET Count(seq, x) == Cardinality({i \in 1..Len(seq) : seq[i] = x}) IN
    /\ \A owner \in Accounts, consumer \in Accounts, data_types \in DataTypeVecs,
          expires_at \in Times :
        LET r == Dispatch(create_consent(owner, consumer, "Research", data_types,
                                         expires_at, "h1"))
            id == generate_consent_id(owner, consumer, ConsentCount)
        IN  r.res = "Ok"
              => /\ ~Has(Consents, id)
                 /\ DOMAIN r.st.Consents = (DOMAIN Consents) \cup {id}
                 /\ \A old \in DOMAIN Consents : r.st.Consents[old] = Consents[old]
                 /\ r.st.Consents[id].consent_id = id
                 /\ r.st.ConsentCount = ConsentCount + 1
    /\ Cardinality(DOMAIN Consents) = ConsentCount
    /\ \A id \in DOMAIN Consents : \A a \in Accounts :
        /\ Consents[id].consent_id = id
        /\ Count(OwnerConsents[a], id)
             = IF a = Consents[id].data_owner THEN 1 ELSE 0
        /\ Count(ConsumerConsents[a], id)
             = IF a = Consents[id].data_consumer THEN 1 ELSE 0
    /\ \A a \in Accounts :
        /\ \A i \in 1..Len(OwnerConsents[a]) : Has(Consents, OwnerConsents[a][i])
        /\ \A i \in 1..Len(ConsumerConsents[a]) : Has(Consents, ConsumerConsents[a][i])

\* A second consent between the same owner and consumer has been created
\* next to the first one.
C35_Witness ==
    /\ last.op = "create_consent" /\ last.res = "Ok"
    /\ ConsentCount = 2
    /\ Cardinality(DOMAIN Consents) = 2
    /\ \E a \in Accounts, b \in Accounts :
          \A id \in DOMAIN Consents :
              Consents[id].data_owner = a /\ Consents[id].data_consumer = b


\* C36: in every reachable state every stored consent has non-empty
\* data_types, its data_owner has an identity with role Patient and its
\* data_consumer an identity with role Researcher or Institution, whether
\* or not those identities are still active.
C36_StoredConsentWellFormed ==
    \A id \in DOMAIN Consents :
        LET c == Consents[id] IN
        /\ Len(c.data_types) > 0
        /\ Has(Identities, c.data_owner)
        /\ Identities[c.data_owner].role = "Patient"
        /\ Has(Identities, c.data_consumer)
        /\ Identities[c.data_consumer].role \in {"Researcher", "Institution"}

\* A consent is stored whose owner and consumer have both deactivated their
\* identities since.
C36_Witness ==
    \E id \in DOMAIN Consents :
        /\ ~has_role(Consents[id].data_owner, "Patient")
        /\ ~Identities[Consents[id].data_owner].active
        /\ ~Identities[Consents[id].data_consumer].active


(***************************************************************************)
(* Properties of the key lists and the API keys (SpecEnc, SpecAuth).       *)
(***************************************************************************)
\* C37: in every reachable state AccountKeys[a] has at most
\* MaxKeysPerAccount entries, has no duplicates and holds exactly the ids of
\* the stored keys whose owner is a; generate_key by an account whose list is
\* at the cap fails with MaxKeysReached and stores nothing.
C37_AccountKeysConsistent ==
    \A a \in Accounts :
        LET keys == AccountKeys[a] IN
        /\ Len(keys) <= MaxKeysPerAccount
        /\ \A i, j \in 1..Len(keys) : keys[i] = keys[j] => i = j
        /\ {keys[i] : i \in 1..Len(keys)}
             = {k \in DOMAIN EncryptionKeys : EncryptionKeys[k].owner = a}
        /\ Len(keys) >= MaxKeysPerAccount
             => \A purpose \in {"RecordEncryption", "KeyEncryption"},
                   record_id \in {None} \cup {Some(x) : x \in Records},
                   expires_at \in {None, Some(1)} :
                   LET r == Dispatch(generate_key(a, "AES256GCM", purpose,
                                                  record_id, expires_at))
                   IN  r.res = "MaxKeysReached" /\ r.st = Storage

\* generate_key by an account whose key list is full has been refused; one
\* of the account's keys came from a rotation.
C37_Witness ==
    /\ last.op = "generate_key" /\ last.res = "MaxKeysReached"
    /\ \E a \in Accounts :
          /\ Len(AccountKeys[a]) = MaxKeysPerAccount
          /\ \E i \in 1..Len(AccountKeys[a]) : EncryptionKeys[AccountKeys[a][i]].rotated


\* C38: once an ApiKey is stored under a key_hash, no create_api_key or
\* revoke_api_key call by a different account changes its account field or
\* its active flag; revoke_api_key by a non-owner fails with NotAuthorized.
C38_ApiKeyKeepsItsAccount ==
    \A key_hash \in DOMAIN ApiKeys : \A who \in Accounts :
        who # ApiKeys[key_hash].account
           => LET c == Dispatch(create_api_key(who, key_hash, "name")).st.ApiKeys
                  r == Dispatch(revoke_api_key(who, key_hash))
              IN  /\ c[key_hash].account = ApiKeys[key_hash].account
                  /\ c[key_hash].active = ApiKeys[key_hash].active
                  /\ r.res = "NotAuthorized"
                  /\ r.st = Storage

====
